---------------------------- MODULE Spec2Model ----------------------------
(***************************************************************************)
(* Text normalization, flexible keyword matching and multi-source count    *)
(* reconciliation of vietlod/text-mining.                                  *)
(*                                                                         *)
(*   app/core/text_processor.py    VietnameseTextProcessor                 *)
(*   app/core/analyzer.py          KeywordAnalyzer                         *)
(*   app/core/text_deduplicator.py analyze_and_merge_keyword_counts        *)
(*                                                                         *)
(* A Python str is a sequence of characters.  A character is written as a  *)
(* TLA+ string: a printable ASCII character as itself, a Vietnamese letter *)
(* in VIQR notation (base letter, then ^ ( + for circumflex, breve, horn,  *)
(* then ' ! ? ~ . for acute, grave, hook, tilde, dot below; dd and DD for  *)
(* d with stroke), every other character by its code point "U+XXXX".       *)
(* A dict is a function whose DOMAIN is its keys; the keyword map, whose   *)
(* iteration order the loops follow, is a sequence of <<keyword, group>>   *)
(* pairs with pairwise distinct keywords.                                  *)
(***************************************************************************)
EXTENDS Integers, Sequences, FiniteSets, TLC

(***************************************************************************)
(* Static tables (text_processor.py lines 23-83), entries in source order, *)
(* and the properties of the characters that str.lower,                    *)
(* unicodedata.normalize, unicodedata.category and the re module use.      *)
(***************************************************************************)
VN_FONT_FIX_MAP ==
  <<
    <<<<"U+00B5">>, <<"a!">>>>, <<<<"U+00B8">>, <<"a'">>>>, <<<<"U+00B6">>, <<"a?">>>>,
    <<<<"U+00B7">>, <<"a~">>>>, <<<<"U+00B9">>, <<"a.">>>>, <<<<"I!">>, <<"e!">>>>,
    <<<<"U+00D0">>, <<"e'">>>>, <<<<"U+00CE">>, <<"e?">>>>, <<<<"U+00CF">>, <<"e~">>>>,
    <<<<"U+00D1">>, <<"e.">>>>, <<<<"U+00DF">>, <<"o!">>>>, <<<<"U+00E4">>, <<"o.">>>>,
    <<<<"U+00A9">>, <<"a^">>>>, <<<<"U+00AA">>, <<"a(">>>>, <<<<"U+00AE">>, <<"e^">>>>,
    <<<<"U+00AB">>, <<"o+">>>>, <<<<"U+00AC">>, <<"u+">>>>, <<<<"U+00A7">>, <<"dd">>>>,
    <<<<"a", "U+00F8">>, <<"a!">>>>, <<<<"a", "u!">>, <<"a'">>>>, <<<<"a", "U+00FB">>, <<"a?">>>>,
    <<<<"a", "o~">>, <<"a~">>>>, <<<<"a", "U+00EF">>, <<"a.">>>>, <<<<"e", "U+00F8">>, <<"e!">>>>,
    <<<<"e", "u!">>, <<"e'">>>>, <<<<"e", "U+00FB">>, <<"e?">>>>, <<<<"e", "o~">>, <<"e~">>>>,
    <<<<"e", "U+00EF">>, <<"e.">>>>, <<<<"U+00F6">>, <<"o^">>>>, <<<<"U+2013">>, <<"-">>>>,
    <<<<"U+2014">>, <<"-">>>>, <<<<":", " ", "U+0022", "'", "U+0022", ",", " ">>, <<"'">>>>, <<<<"U+0022">>, <<"U+0022">>>>,
    <<<<"U+2026">>, <<".", ".", ".">>>>, <<<<"U+2022">>, <<"-">>>>, <<<<"A~", " ">>, <<"a!">>>>,
    <<<<"A~", "U+00A1">>, <<"a'">>>>, <<<<"A~", "U+00A2">>, <<"a^">>>>, <<<<"A~", "U+00A3">>, <<"a~">>>>,
    <<<<"A~", "U+00A8">>, <<"e!">>>>, <<<<"A~", "U+00A9">>, <<"e'">>>>, <<<<"A~", "U+00AA">>, <<"e^">>>>,
    <<<<"A~", "U+00AC">>, <<"i!">>>>, <<<<"A~", "U+00AD">>, <<"i'">>>>, <<<<"A~", "U+00B2">>, <<"o!">>>>,
    <<<<"A~", "U+00B3">>, <<"o'">>>>, <<<<"A~", "U+00B4">>, <<"o^">>>>, <<<<"A~", "U+00B5">>, <<"o~">>>>,
    <<<<"A~", "U+00B9">>, <<"u!">>>>, <<<<"A~", "U+00BA">>, <<"u'">>>>, <<<<"U+00C4", " ">>, <<"dd">>>>,
    <<<<"U+00C4">>, <<"dd">>>>
  >>

VN_DIACRITIC_MAP ==
    ("a!" :> "a" @@ "a'" :> "a" @@ "a?" :> "a" @@ "a~" :> "a" @@ "a." :> "a" @@ "a(" :> "a")
 @@ ("a(!" :> "a" @@ "a('" :> "a" @@ "a(?" :> "a" @@ "a(~" :> "a" @@ "a(." :> "a" @@ "a^" :> "a")
 @@ ("a^!" :> "a" @@ "a^'" :> "a" @@ "a^?" :> "a" @@ "a^~" :> "a" @@ "a^." :> "a" @@ "A!" :> "a")
 @@ ("A'" :> "a" @@ "A?" :> "a" @@ "A~" :> "a" @@ "A." :> "a" @@ "A(" :> "a" @@ "A(!" :> "a")
 @@ ("A('" :> "a" @@ "A(?" :> "a" @@ "A(~" :> "a" @@ "A(." :> "a" @@ "A^" :> "a" @@ "A^!" :> "a")
 @@ ("A^'" :> "a" @@ "A^?" :> "a" @@ "A^~" :> "a" @@ "A^." :> "a" @@ "e!" :> "e" @@ "e'" :> "e")
 @@ ("e?" :> "e" @@ "e~" :> "e" @@ "e." :> "e" @@ "e^" :> "e" @@ "e^!" :> "e" @@ "e^'" :> "e")
 @@ ("e^?" :> "e" @@ "e^~" :> "e" @@ "e^." :> "e" @@ "E!" :> "e" @@ "E'" :> "e" @@ "E?" :> "e")
 @@ ("E~" :> "e" @@ "E." :> "e" @@ "E^" :> "e" @@ "E^!" :> "e" @@ "E^'" :> "e" @@ "E^?" :> "e")
 @@ ("E^~" :> "e" @@ "E^." :> "e" @@ "i!" :> "i" @@ "i'" :> "i" @@ "i?" :> "i" @@ "i~" :> "i")
 @@ ("i." :> "i" @@ "I!" :> "i" @@ "I'" :> "i" @@ "I?" :> "i" @@ "I~" :> "i" @@ "I." :> "i")
 @@ ("o!" :> "o" @@ "o'" :> "o" @@ "o?" :> "o" @@ "o~" :> "o" @@ "o." :> "o" @@ "o^" :> "o")
 @@ ("o^!" :> "o" @@ "o^'" :> "o" @@ "o^?" :> "o" @@ "o^~" :> "o" @@ "o^." :> "o" @@ "o+" :> "o")
 @@ ("o+!" :> "o" @@ "o+'" :> "o" @@ "o+?" :> "o" @@ "o+~" :> "o" @@ "o+." :> "o" @@ "O!" :> "o")
 @@ ("O'" :> "o" @@ "O?" :> "o" @@ "O~" :> "o" @@ "O." :> "o" @@ "O^" :> "o" @@ "O^!" :> "o")
 @@ ("O^'" :> "o" @@ "O^?" :> "o" @@ "O^~" :> "o" @@ "O^." :> "o" @@ "O+" :> "o" @@ "O+!" :> "o")
 @@ ("O+'" :> "o" @@ "O+?" :> "o" @@ "O+~" :> "o" @@ "O+." :> "o" @@ "u!" :> "u" @@ "u'" :> "u")
 @@ ("u?" :> "u" @@ "u~" :> "u" @@ "u." :> "u" @@ "u+" :> "u" @@ "u+!" :> "u" @@ "u+'" :> "u")
 @@ ("u+?" :> "u" @@ "u+~" :> "u" @@ "u+." :> "u" @@ "U!" :> "u" @@ "U'" :> "u" @@ "U?" :> "u")
 @@ ("U~" :> "u" @@ "U." :> "u" @@ "U+" :> "u" @@ "U+!" :> "u" @@ "U+'" :> "u" @@ "U+?" :> "u")
 @@ ("U+~" :> "u" @@ "U+." :> "u" @@ "y!" :> "y" @@ "y'" :> "y" @@ "y?" :> "y" @@ "y~" :> "y")
 @@ ("y." :> "y" @@ "Y!" :> "y" @@ "Y'" :> "y" @@ "Y?" :> "y" @@ "Y~" :> "y" @@ "Y." :> "y")
 @@ ("dd" :> "d" @@ "DD" :> "d")

LowerMap ==
    ("A" :> <<"a">> @@ "B" :> <<"b">> @@ "C" :> <<"c">> @@ "D" :> <<"d">> @@ "E" :> <<"e">>)
 @@ ("F" :> <<"f">> @@ "G" :> <<"g">> @@ "H" :> <<"h">> @@ "I" :> <<"i">> @@ "J" :> <<"j">>)
 @@ ("K" :> <<"k">> @@ "L" :> <<"l">> @@ "M" :> <<"m">> @@ "N" :> <<"n">> @@ "O" :> <<"o">>)
 @@ ("P" :> <<"p">> @@ "Q" :> <<"q">> @@ "R" :> <<"r">> @@ "S" :> <<"s">> @@ "T" :> <<"t">>)
 @@ ("U" :> <<"u">> @@ "V" :> <<"v">> @@ "W" :> <<"w">> @@ "X" :> <<"x">> @@ "Y" :> <<"y">>)
 @@ ("Z" :> <<"z">> @@ "A!" :> <<"a!">> @@ "A'" :> <<"a'">> @@ "A^" :> <<"a^">> @@ "A~" :> <<"a~">>)
 @@ ("U+00C4" :> <<"U+00E4">> @@ "E!" :> <<"e!">> @@ "E'" :> <<"e'">> @@ "E^" :> <<"e^">> @@ "I!" :> <<"i!">>)
 @@ ("I'" :> <<"i'">> @@ "U+00CE" :> <<"U+00EE">> @@ "U+00CF" :> <<"U+00EF">> @@ "U+00D0" :> <<"U+00F0">> @@ "U+00D1" :> <<"U+00F1">>)
 @@ ("O!" :> <<"o!">> @@ "O'" :> <<"o'">> @@ "O^" :> <<"o^">> @@ "O~" :> <<"o~">> @@ "U+00D8" :> <<"U+00F8">>)
 @@ ("U!" :> <<"u!">> @@ "U'" :> <<"u'">> @@ "Y'" :> <<"y'">> @@ "A(" :> <<"a(">> @@ "DD" :> <<"dd">>)
 @@ ("I~" :> <<"i~">> @@ "U+0130" :> <<"i", "U+0307">> @@ "U~" :> <<"u~">> @@ "O+" :> <<"o+">> @@ "U+" :> <<"u+">>)
 @@ ("U+1E9E" :> <<"U+00DF">> @@ "A." :> <<"a.">> @@ "A?" :> <<"a?">> @@ "A^'" :> <<"a^'">> @@ "A^!" :> <<"a^!">>)
 @@ ("A^?" :> <<"a^?">> @@ "A^~" :> <<"a^~">> @@ "A^." :> <<"a^.">> @@ "A('" :> <<"a('">> @@ "A(!" :> <<"a(!">>)
 @@ ("A(?" :> <<"a(?">> @@ "A(~" :> <<"a(~">> @@ "A(." :> <<"a(.">> @@ "E." :> <<"e.">> @@ "E?" :> <<"e?">>)
 @@ ("E~" :> <<"e~">> @@ "E^'" :> <<"e^'">> @@ "E^!" :> <<"e^!">> @@ "E^?" :> <<"e^?">> @@ "E^~" :> <<"e^~">>)
 @@ ("E^." :> <<"e^.">> @@ "I?" :> <<"i?">> @@ "I." :> <<"i.">> @@ "O." :> <<"o.">> @@ "O?" :> <<"o?">>)
 @@ ("O^'" :> <<"o^'">> @@ "O^!" :> <<"o^!">> @@ "O^?" :> <<"o^?">> @@ "O^~" :> <<"o^~">> @@ "O^." :> <<"o^.">>)
 @@ ("O+'" :> <<"o+'">> @@ "O+!" :> <<"o+!">> @@ "O+?" :> <<"o+?">> @@ "O+~" :> <<"o+~">> @@ "O+." :> <<"o+.">>)
 @@ ("U." :> <<"u.">> @@ "U?" :> <<"u?">> @@ "U+'" :> <<"u+'">> @@ "U+!" :> <<"u+!">> @@ "U+?" :> <<"u+?">>)
 @@ ("U+~" :> <<"u+~">> @@ "U+." :> <<"u+.">> @@ "Y!" :> <<"y!">> @@ "Y." :> <<"y.">> @@ "Y?" :> <<"y?">>)
 @@ ("Y~" :> <<"y~">>)

NFDMap ==
    ("A!" :> <<"A", "U+0300">> @@ "A'" :> <<"A", "U+0301">> @@ "A^" :> <<"A", "U+0302">>)
 @@ ("A~" :> <<"A", "U+0303">> @@ "U+00C4" :> <<"A", "U+0308">> @@ "E!" :> <<"E", "U+0300">>)
 @@ ("E'" :> <<"E", "U+0301">> @@ "E^" :> <<"E", "U+0302">> @@ "I!" :> <<"I", "U+0300">>)
 @@ ("I'" :> <<"I", "U+0301">> @@ "U+00CE" :> <<"I", "U+0302">> @@ "U+00CF" :> <<"I", "U+0308">>)
 @@ ("U+00D1" :> <<"N", "U+0303">> @@ "O!" :> <<"O", "U+0300">> @@ "O'" :> <<"O", "U+0301">>)
 @@ ("O^" :> <<"O", "U+0302">> @@ "O~" :> <<"O", "U+0303">> @@ "U!" :> <<"U", "U+0300">>)
 @@ ("U'" :> <<"U", "U+0301">> @@ "Y'" :> <<"Y", "U+0301">> @@ "a!" :> <<"a", "U+0300">>)
 @@ ("a'" :> <<"a", "U+0301">> @@ "a^" :> <<"a", "U+0302">> @@ "a~" :> <<"a", "U+0303">>)
 @@ ("U+00E4" :> <<"a", "U+0308">> @@ "e!" :> <<"e", "U+0300">> @@ "e'" :> <<"e", "U+0301">>)
 @@ ("e^" :> <<"e", "U+0302">> @@ "i!" :> <<"i", "U+0300">> @@ "i'" :> <<"i", "U+0301">>)
 @@ ("U+00EE" :> <<"i", "U+0302">> @@ "U+00EF" :> <<"i", "U+0308">> @@ "U+00F1" :> <<"n", "U+0303">>)
 @@ ("o!" :> <<"o", "U+0300">> @@ "o'" :> <<"o", "U+0301">> @@ "o^" :> <<"o", "U+0302">>)
 @@ ("o~" :> <<"o", "U+0303">> @@ "U+00F6" :> <<"o", "U+0308">> @@ "u!" :> <<"u", "U+0300">>)
 @@ ("u'" :> <<"u", "U+0301">> @@ "U+00FB" :> <<"u", "U+0302">> @@ "y'" :> <<"y", "U+0301">>)
 @@ ("A(" :> <<"A", "U+0306">> @@ "a(" :> <<"a", "U+0306">> @@ "I~" :> <<"I", "U+0303">>)
 @@ ("i~" :> <<"i", "U+0303">> @@ "U+0130" :> <<"I", "U+0307">> @@ "U~" :> <<"U", "U+0303">>)
 @@ ("u~" :> <<"u", "U+0303">> @@ "O+" :> <<"O", "U+031B">> @@ "o+" :> <<"o", "U+031B">>)
 @@ ("U+" :> <<"U", "U+031B">> @@ "u+" :> <<"u", "U+031B">> @@ "A." :> <<"A", "U+0323">>)
 @@ ("a." :> <<"a", "U+0323">> @@ "A?" :> <<"A", "U+0309">> @@ "a?" :> <<"a", "U+0309">>)
 @@ ("A^'" :> <<"A", "U+0302", "U+0301">> @@ "a^'" :> <<"a", "U+0302", "U+0301">> @@ "A^!" :> <<"A", "U+0302", "U+0300">>)
 @@ ("a^!" :> <<"a", "U+0302", "U+0300">> @@ "A^?" :> <<"A", "U+0302", "U+0309">> @@ "a^?" :> <<"a", "U+0302", "U+0309">>)
 @@ ("A^~" :> <<"A", "U+0302", "U+0303">> @@ "a^~" :> <<"a", "U+0302", "U+0303">> @@ "A^." :> <<"A", "U+0323", "U+0302">>)
 @@ ("a^." :> <<"a", "U+0323", "U+0302">> @@ "A('" :> <<"A", "U+0306", "U+0301">> @@ "a('" :> <<"a", "U+0306", "U+0301">>)
 @@ ("A(!" :> <<"A", "U+0306", "U+0300">> @@ "a(!" :> <<"a", "U+0306", "U+0300">> @@ "A(?" :> <<"A", "U+0306", "U+0309">>)
 @@ ("a(?" :> <<"a", "U+0306", "U+0309">> @@ "A(~" :> <<"A", "U+0306", "U+0303">> @@ "a(~" :> <<"a", "U+0306", "U+0303">>)
 @@ ("A(." :> <<"A", "U+0323", "U+0306">> @@ "a(." :> <<"a", "U+0323", "U+0306">> @@ "E." :> <<"E", "U+0323">>)
 @@ ("e." :> <<"e", "U+0323">> @@ "E?" :> <<"E", "U+0309">> @@ "e?" :> <<"e", "U+0309">>)
 @@ ("E~" :> <<"E", "U+0303">> @@ "e~" :> <<"e", "U+0303">> @@ "E^'" :> <<"E", "U+0302", "U+0301">>)
 @@ ("e^'" :> <<"e", "U+0302", "U+0301">> @@ "E^!" :> <<"E", "U+0302", "U+0300">> @@ "e^!" :> <<"e", "U+0302", "U+0300">>)
 @@ ("E^?" :> <<"E", "U+0302", "U+0309">> @@ "e^?" :> <<"e", "U+0302", "U+0309">> @@ "E^~" :> <<"E", "U+0302", "U+0303">>)
 @@ ("e^~" :> <<"e", "U+0302", "U+0303">> @@ "E^." :> <<"E", "U+0323", "U+0302">> @@ "e^." :> <<"e", "U+0323", "U+0302">>)
 @@ ("I?" :> <<"I", "U+0309">> @@ "i?" :> <<"i", "U+0309">> @@ "I." :> <<"I", "U+0323">>)
 @@ ("i." :> <<"i", "U+0323">> @@ "O." :> <<"O", "U+0323">> @@ "o." :> <<"o", "U+0323">>)
 @@ ("O?" :> <<"O", "U+0309">> @@ "o?" :> <<"o", "U+0309">> @@ "O^'" :> <<"O", "U+0302", "U+0301">>)
 @@ ("o^'" :> <<"o", "U+0302", "U+0301">> @@ "O^!" :> <<"O", "U+0302", "U+0300">> @@ "o^!" :> <<"o", "U+0302", "U+0300">>)
 @@ ("O^?" :> <<"O", "U+0302", "U+0309">> @@ "o^?" :> <<"o", "U+0302", "U+0309">> @@ "O^~" :> <<"O", "U+0302", "U+0303">>)
 @@ ("o^~" :> <<"o", "U+0302", "U+0303">> @@ "O^." :> <<"O", "U+0323", "U+0302">> @@ "o^." :> <<"o", "U+0323", "U+0302">>)
 @@ ("O+'" :> <<"O", "U+031B", "U+0301">> @@ "o+'" :> <<"o", "U+031B", "U+0301">> @@ "O+!" :> <<"O", "U+031B", "U+0300">>)
 @@ ("o+!" :> <<"o", "U+031B", "U+0300">> @@ "O+?" :> <<"O", "U+031B", "U+0309">> @@ "o+?" :> <<"o", "U+031B", "U+0309">>)
 @@ ("O+~" :> <<"O", "U+031B", "U+0303">> @@ "o+~" :> <<"o", "U+031B", "U+0303">> @@ "O+." :> <<"O", "U+031B", "U+0323">>)
 @@ ("o+." :> <<"o", "U+031B", "U+0323">> @@ "U." :> <<"U", "U+0323">> @@ "u." :> <<"u", "U+0323">>)
 @@ ("U?" :> <<"U", "U+0309">> @@ "u?" :> <<"u", "U+0309">> @@ "U+'" :> <<"U", "U+031B", "U+0301">>)
 @@ ("u+'" :> <<"u", "U+031B", "U+0301">> @@ "U+!" :> <<"U", "U+031B", "U+0300">> @@ "u+!" :> <<"u", "U+031B", "U+0300">>)
 @@ ("U+?" :> <<"U", "U+031B", "U+0309">> @@ "u+?" :> <<"u", "U+031B", "U+0309">> @@ "U+~" :> <<"U", "U+031B", "U+0303">>)
 @@ ("u+~" :> <<"u", "U+031B", "U+0303">> @@ "U+." :> <<"U", "U+031B", "U+0323">> @@ "u+." :> <<"u", "U+031B", "U+0323">>)
 @@ ("Y!" :> <<"Y", "U+0300">> @@ "y!" :> <<"y", "U+0300">> @@ "Y." :> <<"Y", "U+0323">>)
 @@ ("y." :> <<"y", "U+0323">> @@ "Y?" :> <<"Y", "U+0309">> @@ "y?" :> <<"y", "U+0309">>)
 @@ ("Y~" :> <<"Y", "U+0303">> @@ "y~" :> <<"y", "U+0303">>)
 @@ ("U+AC00" :> <<"U+1100", "U+1161">> @@ "U+AC01" :> <<"U+1100", "U+1161", "U+11A8">>)

Mn ==
  {"U+0300", "U+0301", "U+0302", "U+0303", "U+0306", "U+0307", "U+0308", "U+0309", "U+031B", "U+0323"}

WordChars ==
  {
    "0", "1", "2", "3", "4", "5", "6", "7", "8", "9", "A", "B",
    "C", "D", "E", "F", "G", "H", "I", "J", "K", "L", "M", "N",
    "O", "P", "Q", "R", "S", "T", "U", "V", "W", "X", "Y", "Z",
    "_", "a", "b", "c", "d", "e", "f", "g", "h", "i", "j", "k",
    "l", "m", "n", "o", "p", "q", "r", "s", "t", "u", "v", "w",
    "x", "y", "z", "U+00AA", "U+00B2", "U+00B3", "U+00B5", "U+00B9", "U+00BA", "A!", "A'", "A^",
    "A~", "U+00C4", "E!", "E'", "E^", "I!", "I'", "U+00CE", "U+00CF", "U+00D0", "U+00D1", "O!",
    "O'", "O^", "O~", "U+00D8", "U!", "U'", "Y'", "U+00DF", "a!", "a'", "a^", "a~",
    "U+00E4", "e!", "e'", "e^", "i!", "i'", "U+00EE", "U+00EF", "U+00F0", "U+00F1", "o!", "o'",
    "o^", "o~", "U+00F6", "U+00F8", "u!", "u'", "U+00FB", "y'", "A(", "a(", "DD", "dd",
    "I~", "i~", "U+0130", "U+0131", "U~", "u~", "U+017F", "O+", "o+", "U+", "u+", "U+1E9E",
    "A.", "a.", "A?", "a?", "A^'", "a^'", "A^!", "a^!", "A^?", "a^?", "A^~", "a^~",
    "A^.", "a^.", "A('", "a('", "A(!", "a(!", "A(?", "a(?", "A(~", "a(~", "A(.", "a(.",
    "E.", "e.", "E?", "e?", "E~", "e~", "E^'", "e^'", "E^!", "e^!", "E^?", "e^?",
    "E^~", "e^~", "E^.", "e^.", "I?", "i?", "I.", "i.", "O.", "o.", "O?", "o?",
    "O^'", "o^'", "O^!", "o^!", "O^?", "o^?", "O^~", "o^~", "O^.", "o^.", "O+'", "o+'",
    "O+!", "o+!", "O+?", "o+?", "O+~", "o+~", "O+.", "o+.", "U.", "u.", "U?", "u?",
    "U+'", "u+'", "U+!", "u+!", "U+?", "u+?", "U+~", "u+~", "U+.", "u+.", "Y!", "y!",
    "Y.", "y.", "Y?", "y?", "Y~", "y~",
    "U+1100", "U+1161", "U+11A8", "U+AC00", "U+AC01"
  }

SpaceChars ==
  {"U+0009", "U+000A", " "}

AZ09IgnoreCase ==
  {
    "0", "1", "2", "3", "4", "5", "6", "7", "8", "9", "A", "B", "C", "D", "E", "F",
    "G", "H", "I", "J", "K", "L", "M", "N", "O", "P", "Q", "R", "S", "T", "U", "V",
    "W", "X", "Y", "Z", "a", "b", "c", "d", "e", "f", "g", "h", "i", "j", "k", "l",
    "m", "n", "o", "p", "q", "r", "s", "t", "u", "v", "w", "x", "y", "z", "U+0130", "U+0131",
    "U+017F"
  }

CaseFoldMap ==
    ("A" :> "a" @@ "B" :> "b" @@ "C" :> "c" @@ "D" :> "d" @@ "E" :> "e" @@ "F" :> "f")
 @@ ("G" :> "g" @@ "H" :> "h" @@ "I" :> "i" @@ "J" :> "j" @@ "K" :> "k" @@ "L" :> "l")
 @@ ("M" :> "m" @@ "N" :> "n" @@ "O" :> "o" @@ "P" :> "p" @@ "Q" :> "q" @@ "R" :> "r")
 @@ ("S" :> "s" @@ "T" :> "t" @@ "U" :> "u" @@ "V" :> "v" @@ "W" :> "w" @@ "X" :> "x")
 @@ ("Y" :> "y" @@ "Z" :> "z" @@ "A!" :> "a!" @@ "A'" :> "a'" @@ "A^" :> "a^" @@ "A~" :> "a~")
 @@ ("U+00C4" :> "U+00E4" @@ "E!" :> "e!" @@ "E'" :> "e'" @@ "E^" :> "e^" @@ "I!" :> "i!" @@ "I'" :> "i'")
 @@ ("U+00CE" :> "U+00EE" @@ "U+00CF" :> "U+00EF" @@ "U+00D0" :> "U+00F0" @@ "U+00D1" :> "U+00F1" @@ "O!" :> "o!" @@ "O'" :> "o'")
 @@ ("O^" :> "o^" @@ "O~" :> "o~" @@ "U+00D8" :> "U+00F8" @@ "U!" :> "u!" @@ "U'" :> "u'" @@ "Y'" :> "y'")
 @@ ("A(" :> "a(" @@ "DD" :> "dd" @@ "I~" :> "i~" @@ "U+0130" :> "i" @@ "U+0131" :> "i" @@ "U~" :> "u~")
 @@ ("U+017F" :> "s" @@ "O+" :> "o+" @@ "U+" :> "u+" @@ "U+1E9E" :> "U+00DF" @@ "A." :> "a." @@ "A?" :> "a?")
 @@ ("A^'" :> "a^'" @@ "A^!" :> "a^!" @@ "A^?" :> "a^?" @@ "A^~" :> "a^~" @@ "A^." :> "a^." @@ "A('" :> "a('")
 @@ ("A(!" :> "a(!" @@ "A(?" :> "a(?" @@ "A(~" :> "a(~" @@ "A(." :> "a(." @@ "E." :> "e." @@ "E?" :> "e?")
 @@ ("E~" :> "e~" @@ "E^'" :> "e^'" @@ "E^!" :> "e^!" @@ "E^?" :> "e^?" @@ "E^~" :> "e^~" @@ "E^." :> "e^.")
 @@ ("I?" :> "i?" @@ "I." :> "i." @@ "O." :> "o." @@ "O?" :> "o?" @@ "O^'" :> "o^'" @@ "O^!" :> "o^!")
 @@ ("O^?" :> "o^?" @@ "O^~" :> "o^~" @@ "O^." :> "o^." @@ "O+'" :> "o+'" @@ "O+!" :> "o+!" @@ "O+?" :> "o+?")
 @@ ("O+~" :> "o+~" @@ "O+." :> "o+." @@ "U." :> "u." @@ "U?" :> "u?" @@ "U+'" :> "u+'" @@ "U+!" :> "u+!")
 @@ ("U+?" :> "u+?" @@ "U+~" :> "u+~" @@ "U+." :> "u+." @@ "Y!" :> "y!" @@ "Y." :> "y." @@ "Y?" :> "y?")
 @@ ("Y~" :> "y~")

(***************************************************************************)
(* Python string primitives                                                *)
(***************************************************************************)
\* ''.join(ss), the halves joined first
RECURSIVE Flatten(_)
Flatten(ss) ==
  IF ss = <<>> THEN <<>>
  ELSE IF Len(ss) = 1 THEN ss[1]
  ELSE Flatten(SubSeq(ss, 1, Len(ss) \div 2))
       \o Flatten(SubSeq(ss, Len(ss) \div 2 + 1, Len(ss)))

\* wrong occurs in text at index i
OccursAt(text, wrong, i) ==
  /\ i + Len(wrong) - 1 <= Len(text)
  /\ \A j \in 1..Len(wrong) : text[i + j - 1] = wrong[j]

RECURSIVE ReplaceFrom(_, _, _, _)
ReplaceFrom(text, wrong, correct, i) ==
  LET hits == {q \in i..Len(text) : OccursAt(text, wrong, q)}
  IN  IF hits = {} THEN SubSeq(text, i, Len(text))
      ELSE LET q == CHOOSE x \in hits : \A y \in hits : x <= y  \* the leftmost one
           IN  SubSeq(text, i, q - 1) \o correct
               \o ReplaceFrom(text, wrong, correct, q + Len(wrong))

\* str.replace(wrong, correct): leftmost non-overlapping occurrences, wrong non-empty
StrReplace(text, wrong, correct) ==
  IF \E i \in 1..Len(text) : text[i] = wrong[1]
  THEN ReplaceFrom(text, wrong, correct, 1)
  ELSE text  \* wrong does not occur

\* characters that str.lower() changes
Uppercase == DOMAIN LowerMap

\* str.lower()
StrLower(text) ==
  Flatten([i \in 1..Len(text) |->
             IF text[i] \in Uppercase THEN LowerMap[text[i]] ELSE <<text[i]>>])

\* keys of self._diacritic_table = str.maketrans(VN_DIACRITIC_MAP)
DiacriticLetters == DOMAIN VN_DIACRITIC_MAP

\* str.translate(self._diacritic_table)
Translate(text) ==
  [i \in 1..Len(text) |->
     IF text[i] \in DiacriticLetters THEN VN_DIACRITIC_MAP[text[i]] ELSE text[i]]

\* characters with a canonical decomposition
Decomposable == DOMAIN NFDMap

\* unicodedata.normalize('NFD', text)
NFD(text) ==
  Flatten([i \in 1..Len(text) |->
             IF text[i] \in Decomposable THEN NFDMap[text[i]] ELSE <<text[i]>>])

IsMn(ch) == ch \in Mn
NotMn(ch) == ~IsMn(ch)

\* str.strip()
RECURSIVE LStrip(_)
LStrip(text) ==
  IF text # <<>> /\ Head(text) \in SpaceChars THEN LStrip(Tail(text)) ELSE text

RECURSIVE RStrip(_)
RStrip(text) ==
  IF text # <<>> /\ text[Len(text)] \in SpaceChars
  THEN RStrip(SubSeq(text, 1, Len(text) - 1)) ELSE text

StrStrip(text) == RStrip(LStrip(text))

\* self._non_alnum_pattern = re.compile(r'[^\w\s]'), .sub(' ', text)
NonAlnumSub(text) ==
  [i \in 1..Len(text) |->
     IF text[i] \notin WordChars /\ text[i] \notin SpaceChars THEN " " ELSE text[i]]

\* self._whitespace_pattern = re.compile(r'\s+'), .sub(' ', text)
\* what the substitution leaves of the character at index i: a run of whitespace
\* leaves one space, at its first character
WhitespaceSubAt(text, i) ==
  IF text[i] \in SpaceChars
  THEN IF i > 1 /\ text[i - 1] \in SpaceChars THEN <<>> ELSE <<" ">>
  ELSE <<text[i]>>

WhitespaceSub(text) == Flatten([i \in 1..Len(text) |-> WhitespaceSubAt(text, i)])

(***************************************************************************)
(* VietnameseTextProcessor                                                 *)
(***************************************************************************)
\* sorted(VN_FONT_FIX_MAP.items(), key=lambda x: -len(x[0])): stable, longest key first
FixLens == {Len(VN_FONT_FIX_MAP[i][1]) : i \in DOMAIN VN_FONT_FIX_MAP}

MaxFixLen == CHOOSE n \in FixLens : \A m \in FixLens : m <= n

RECURSIVE SortedByLen(_, _)
SortedByLen(items, n) ==
  IF n = 0 THEN <<>>
  ELSE SelectSeq(items, LAMBDA it : Len(it[1]) = n) \o SortedByLen(items, n - 1)

\* the items in dict order, without the sort
SortedFixes_unsorted == VN_FONT_FIX_MAP

SortedFixes == SortedByLen(VN_FONT_FIX_MAP, MaxFixLen)

RECURSIVE ApplyFixes(_, _, _)
ApplyFixes(text, fixes, k) ==
  IF k > Len(fixes) \/ Len(text) = 0 THEN text  \* nothing to replace in ""
  ELSE IF k = Len(fixes) THEN StrReplace(text, fixes[k][1], fixes[k][2])
  ELSE \* the items k..mid first, then the items after mid
       ApplyFixes(ApplyFixes(text, SubSeq(fixes, 1, (k + Len(fixes)) \div 2), k),
                  fixes, (k + Len(fixes)) \div 2 + 1)

fix_font_errors(text) ==
  IF text = <<>> THEN <<>> ELSE ApplyFixes(text, SortedFixes, 1)

remove_diacritics(text) ==
  IF text = <<>> THEN <<>> ELSE SelectSeq(NFD(Translate(text)), NotMn)

normalize_text(text) ==
  IF text = <<>> THEN <<>>
  ELSE LET t1 == fix_font_errors(text)
           t2 == StrLower(t1)
           t3 == StrReplace(StrReplace(t2, <<"dd">>, <<"d">>), <<"DD">>, <<"d">>)
           t4 == remove_diacritics(t3)
           t5 == NonAlnumSub(t4)
       IN  StrStrip(WhitespaceSub(t5))

normalize_keyword(keyword) == normalize_text(keyword)

(***************************************************************************)
(* Program state.  The functions of the core are pure; the state records   *)
(* the arguments of a call, what the environment decides for it, and what  *)
(* the call returned.                                                      *)
(***************************************************************************)
VARIABLES
  text_parts,      \* list of text sources handed to analyze_and_merge_keyword_counts
  keywords_map,    \* {keyword: group_id}, in insertion order
  hash_seed,       \* str hash seed of the process: decides the order of list(set)
  regex_error,     \* keywords on which create_flexible_regex / findall raises
  op,              \* the call that has returned: "none" before any call
  text_arg,        \* text argument of the last normalize_text / analyze call
  normalized,      \* value returned by normalize_text(text_arg)
  renormalized,    \* value returned by normalize_text(normalized)
  keyword_counts,  \* first component of the returned tuple
  group_counts,    \* second component of the returned tuple
  analyzed,        \* texts analyzer.analyze was called with, in call order
  chunk_size_arg,  \* chunk_size argument of the last _analyze_text_batched call
  raised,          \* TRUE when the call ended with an exception instead of returning
  fixed,           \* value returned by fix_font_errors(text_arg)
  keyword_arg,     \* keyword argument of the last generate_keyword_variants / count call
  variant_list,    \* list returned by generate_keyword_variants(keyword_arg)
  match_count,     \* value returned by count_keyword_matches(text_arg, keyword_arg)
  matches,         \* the list pattern.findall gave it: <<index, length>> of each match
  mode,            \* branch analyze_text took: "empty", "single" or "batch"
  chunk_results,   \* per chunk of the last batch analysis: the chunk and its counts
  group_totals,    \* total_group_counts after the merge of each chunk
  long_text,       \* <<ch, n>>: the text of n characters ch handed to analyze_text
  history,         \* earlier calls of the session, in order: the call and what it returned
  instances,       \* the VietnameseTextProcessor objects constructed so far: their fields
  _processor_instance, \* the module-level variable: index in instances, 0 for None
  threads,         \* the analyze calls on the sources of one document that are under way
  callers,         \* the calls of get_text_processor that are under way
  extraction       \* the locals of a call of extract_pdf_aggressive and what it has invoked

vars == <<text_parts, keywords_map, hash_seed, regex_error, op, text_arg, normalized,
          renormalized, keyword_counts, group_counts, analyzed, chunk_size_arg, raised,
          fixed, keyword_arg, variant_list, match_count, matches,
          mode, chunk_results, group_totals, long_text, history, instances,
          _processor_instance, threads, callers, extraction>>

(***************************************************************************)
(* dict helpers                                                            *)
(***************************************************************************)
EmptyDict == <<>>

\* d.get(k, default)
Get(d, k, default) == IF k \in DOMAIN d THEN d[k] ELSE default

\* d[k] = v
Put(d, k, v) == [x \in (DOMAIN d) \cup {k} |-> IF x = k THEN v ELSE d[x]]

\* keywords_map.get(keyword, 0) on the insertion-ordered keyword map
MapGet(map, keyword, default) ==
  IF \E i \in 1..Len(map) : map[i][1] = keyword
  THEN map[CHOOSE i \in 1..Len(map) : map[i][1] = keyword][2]
  ELSE default

Range(s) == {s[i] : i \in 1..Len(s)}

(***************************************************************************)
(* Keyword variants and the flexible pattern                               *)
(***************************************************************************)
\* set(): one copy of each element
RECURSIVE Dedup(_)
Dedup(items) ==
  IF items = <<>> THEN <<>>
  ELSE LET rest == Dedup(SubSeq(items, 1, Len(items) - 1))
           last == items[Len(items)]
       IN  IF last \in Range(rest) THEN rest ELSE Append(rest, last)

\* list(variants): the elements of the set in the order the hash seed gives them
ListOfSet(items) ==
  LET s == Dedup(items)
      n == Len(s)
  IN  [i \in 1..n |-> s[((i - 1 + hash_seed) % n) + 1]]

\* the no-space variant is added from two characters on
VariantsOf_short_joined(kw_norm) ==
  LET no_space   == StrReplace(kw_norm, <<" ">>, <<>>)
      hyphen     == StrReplace(kw_norm, <<" ">>, <<"-">>)
      underscore == StrReplace(kw_norm, <<" ">>, <<"_">>)
      dot        == StrReplace(kw_norm, <<" ">>, <<".">>)
  IN  IF Len(kw_norm) < 2 THEN <<>>
      ELSE IF " " \in Range(kw_norm)
           THEN ListOfSet(<<kw_norm>>
                          \o (IF Len(no_space) >= 2 THEN <<no_space>> ELSE <<>>)
                          \o <<hyphen, underscore, dot>>)
           ELSE ListOfSet(<<kw_norm>>)

\* the no-space variant is added from four characters on
VariantsOf_long_joined(kw_norm) ==
  LET no_space   == StrReplace(kw_norm, <<" ">>, <<>>)
      hyphen     == StrReplace(kw_norm, <<" ">>, <<"-">>)
      underscore == StrReplace(kw_norm, <<" ">>, <<"_">>)
      dot        == StrReplace(kw_norm, <<" ">>, <<".">>)
  IN  IF Len(kw_norm) < 2 THEN <<>>
      ELSE IF " " \in Range(kw_norm)
           THEN ListOfSet(<<kw_norm>>
                          \o (IF Len(no_space) > 3 THEN <<no_space>> ELSE <<>>)
                          \o <<hyphen, underscore, dot>>)
           ELSE ListOfSet(<<kw_norm>>)

\* only the empty keyword is too short
VariantsOf_one_char(kw_norm) ==
  LET no_space   == StrReplace(kw_norm, <<" ">>, <<>>)
      hyphen     == StrReplace(kw_norm, <<" ">>, <<"-">>)
      underscore == StrReplace(kw_norm, <<" ">>, <<"_">>)
      dot        == StrReplace(kw_norm, <<" ">>, <<".">>)
  IN  IF Len(kw_norm) < 1 THEN <<>>
      ELSE IF " " \in Range(kw_norm)
           THEN ListOfSet(<<kw_norm>>
                          \o (IF Len(no_space) > 2 THEN <<no_space>> ELSE <<>>)
                          \o <<hyphen, underscore, dot>>)
           ELSE ListOfSet(<<kw_norm>>)

\* the variants of the normalized keyword kw_norm
VariantsOf(kw_norm) ==
  LET no_space   == StrReplace(kw_norm, <<" ">>, <<>>)
      hyphen     == StrReplace(kw_norm, <<" ">>, <<"-">>)
      underscore == StrReplace(kw_norm, <<" ">>, <<"_">>)
      dot        == StrReplace(kw_norm, <<" ">>, <<".">>)
  IN  IF Len(kw_norm) < 2 THEN <<>>
      ELSE IF " " \in Range(kw_norm)
           THEN ListOfSet(<<kw_norm>>
                          \o (IF Len(no_space) > 2 THEN <<no_space>> ELSE <<>>)
                          \o <<hyphen, underscore, dot>>)
           ELSE ListOfSet(<<kw_norm>>)

generate_keyword_variants(keyword) == VariantsOf(normalize_keyword(keyword))

\* A compiled pattern is the sequence of its alternatives '(?<![a-z0-9])(v)(?![a-z0-9])',
\* v a literal (re.escape), compiled with re.IGNORECASE; r'(?!.*)' has no alternative.
NeverMatch == <<>>

\* re.compile('|'.join(patterns), re.IGNORECASE), or the pattern that never matches
Compile(variants) == IF variants = <<>> THEN NeverMatch ELSE variants

create_flexible_regex(keyword) == Compile(generate_keyword_variants(keyword))

\* re.IGNORECASE comparison of two characters
CaseFolded == DOMAIN CaseFoldMap

CaseFold(ch) == IF ch \in CaseFolded THEN CaseFoldMap[ch] ELSE ch

\* alternative v matches at index p of string
AltMatchesAt(string, v, p) ==
  /\ p + Len(v) - 1 <= Len(string)
  /\ \A j \in 1..Len(v) : CaseFold(string[p + j - 1]) = CaseFold(v[j])
  /\ (p = 1 \/ string[p - 1] \notin AZ09IgnoreCase)
  /\ (p + Len(v) > Len(string) \/ string[p + Len(v)] \notin AZ09IgnoreCase)

\* length of the match the alternation finds at p (first alternative that matches), 0 if none
MatchLenAt(pattern, string, p) ==
  IF \E a \in 1..Len(pattern) : AltMatchesAt(string, pattern[a], p)
  THEN Len(pattern[CHOOSE a \in 1..Len(pattern) :
                     /\ AltMatchesAt(string, pattern[a], p)
                     /\ \A b \in 1..(a - 1) : ~AltMatchesAt(string, pattern[b], p)])
  ELSE 0

\* len(pattern.findall(string)): non-overlapping matches, scanning left to right
RECURSIVE FindallCount(_, _, _)
FindallCount(pattern, string, p) ==
  LET starts == {q \in p..Len(string) : MatchLenAt(pattern, string, q) > 0}
  IN  IF starts = {} THEN 0
      ELSE LET q == CHOOSE x \in starts : \A y \in starts : x <= y  \* the next match
           IN  1 + FindallCount(pattern, string, q + MatchLenAt(pattern, string, q))

\* pattern.findall(string): the matches, each as <<index, length>>
RECURSIVE Findall(_, _, _)
Findall(pattern, string, p) ==
  LET starts == {q \in p..Len(string) : MatchLenAt(pattern, string, q) > 0}
  IN  IF starts = {} THEN <<>>
      ELSE LET q == CHOOSE x \in starts : \A y \in starts : x <= y  \* the next match
               m == MatchLenAt(pattern, string, q)
           IN  <<<<q, m>>>> \o Findall(pattern, string, q + m)

count_keyword_matches(string, keyword) ==
  FindallCount(create_flexible_regex(keyword), normalize_text(string), 1)

(***************************************************************************)
(* analyze_text, _analyze_text_batched                                     *)
(* A call returns [keyword_counts, group_counts, raised].                  *)
(***************************************************************************)
Returned(kc, gc) == [keyword_counts |-> kc, group_counts |-> gc, raised |-> FALSE]

Raised == [keyword_counts |-> EmptyDict, group_counts |-> EmptyDict, raised |-> TRUE]

CHUNK_SIZE == 100000

\* 'group_counts[group_id] = count' in place of the accumulation
AddCount_overwrite(gc, group_id, count) == Put(gc, group_id, count)

\* group_counts[group_id] = group_counts.get(group_id, 0) + count
AddCount(gc, group_id, count) == Put(gc, group_id, Get(gc, group_id, 0) + count)

\* for keyword, group_id in keywords_map.items(): try: ... except Exception: logger.error(...)
\* from item i on, with the dicts built so far
RECURSIVE KeywordLoop(_, _, _, _, _)
RECURSIVE KeywordStep(_, _, _, _, _, _)
\* the except branch recording 'keyword_counts[keyword] = 0'
KeywordLoop_zero_on_error(normalized_text, map, i, kc, gc) ==
  IF i > Len(map) THEN Returned(kc, gc)
  ELSE IF map[i][1] \in regex_error
       THEN KeywordLoop(normalized_text, map, i + 1, Put(kc, map[i][1], 0), gc)
       ELSE KeywordStep(normalized_text, map, i, kc, gc,
                        FindallCount(create_flexible_regex(map[i][1]), normalized_text, 1))

KeywordLoop(normalized_text, map, i, kc, gc) ==
  IF i > Len(map) THEN Returned(kc, gc)
  ELSE IF map[i][1] \in regex_error
       THEN KeywordLoop(normalized_text, map, i + 1, kc, gc)
       ELSE KeywordStep(normalized_text, map, i, kc, gc,
                        FindallCount(create_flexible_regex(map[i][1]), normalized_text, 1))

\* every count recorded, without 'if count > 0'
KeywordStep_zero(normalized_text, map, i, kc, gc, count) ==
  KeywordLoop(normalized_text, map, i + 1,
              Put(kc, map[i][1], count), AddCount(gc, map[i][2], count))

\* count = len(matches); if count > 0: record it for keyword and group of item i
KeywordStep(normalized_text, map, i, kc, gc, count) ==
  IF count > 0
  THEN KeywordLoop(normalized_text, map, i + 1,
                   Put(kc, map[i][1], count), AddCount(gc, map[i][2], count))
  ELSE KeywordLoop(normalized_text, map, i + 1, kc, gc)

\* chunks that start on the last character of the chunk before
RECURSIVE Chunks_overlapping(_, _, _)
Chunks_overlapping(string, chunk_size, i) ==
  IF i > Len(string) THEN <<>>
  ELSE <<SubSeq(string, i, IF i + chunk_size - 1 < Len(string)
                           THEN i + chunk_size - 1 ELSE Len(string))>>
       \o Chunks_overlapping(string, chunk_size, i + chunk_size - 1)

\* chunks = [text[i:i + chunk_size] for i in range(0, len(text), chunk_size)]
RECURSIVE Chunks(_, _, _)
Chunks(string, chunk_size, i) ==
  IF i > Len(string) THEN <<>>
  ELSE <<SubSeq(string, i, IF i + chunk_size - 1 < Len(string)
                           THEN i + chunk_size - 1 ELSE Len(string))>>
       \o Chunks(string, chunk_size, i + chunk_size)

\* for k, v in d.items(): total[k] = total.get(k, 0) + v
SumInto(total, d) ==
  [x \in (DOMAIN total) \cup (DOMAIN d) |-> Get(total, x, 0) + Get(d, x, 0)]

\* for chunk_idx, chunk in enumerate(chunks): from chunk c on, with the totals so far
RECURSIVE ChunkLoop(_, _, _, _, _)
RECURSIVE ChunkMerge(_, _, _, _, _, _)
ChunkLoop(chunks, map, c, total_kc, total_gc) ==
  IF c > Len(chunks) THEN Returned(total_kc, total_gc)
  ELSE ChunkMerge(chunks, map, c, total_kc, total_gc,
                  KeywordLoop(normalize_text(chunks[c]), map, 1, EmptyDict, EmptyDict))

\* the group counts of the chunk replace the total
ChunkMerge_groups_last(chunks, map, c, total_kc, total_gc, r) ==
  ChunkLoop(chunks, map, c + 1,
            SumInto(total_kc, r.keyword_counts), r.group_counts)

\* merge the counts r of chunk c into the totals
ChunkMerge(chunks, map, c, total_kc, total_gc, r) ==
  ChunkLoop(chunks, map, c + 1,
            SumInto(total_kc, r.keyword_counts), SumInto(total_gc, r.group_counts))

_analyze_text_batched(string, map, chunk_size) ==
  ChunkLoop(Chunks(string, chunk_size, 1), map, 1, EmptyDict, EmptyDict)

\* what the loop over the chunks computes for one chunk, before the merge
ChunkResult(chunk, r) ==
  [chunk |-> chunk, keyword_counts |-> r.keyword_counts, group_counts |-> r.group_counts]

ChunkResultsOf(chunks, map) ==
  [c \in 1..Len(chunks) |->
     ChunkResult(chunks[c],
                 KeywordLoop(normalize_text(chunks[c]), map, 1, EmptyDict, EmptyDict))]

\* chunk_keyword_counts and chunk_group_counts of every chunk, in order
ChunkResults(string, map, chunk_size) == ChunkResultsOf(Chunks(string, chunk_size, 1), map)

\* total_group_counts after 'for g, c in chunk_group_counts.items(): ...' of chunk c
RECURSIVE GroupTotalAfter(_, _)
GroupTotalAfter(results, c) ==
  IF c = 0 THEN EmptyDict
  ELSE SumInto(GroupTotalAfter(results, c - 1), results[c].group_counts)

RunningGroupTotals(results) == [c \in 1..Len(results) |-> GroupTotalAfter(results, c)]

\* the branch analyze_text takes on a text of the given length
analyze_branch(length, map) ==
  IF length = 0 \/ map = <<>> THEN "empty"
  ELSE IF length > CHUNK_SIZE THEN "batch"
  ELSE "single"

analyze_mode(string, map) == analyze_branch(Len(string), map)

\* len(normalize_text(ch * n)): on a text of one repeated character every stage before
\* the whitespace collapse works character by character (no pattern of the repair
\* table is a doubled character), and a character that normalizes to nothing leaves
\* nothing however often it is repeated
UniformNormalizedLen(ch, n) == n * Len(normalize_text(<<ch>>))

\* lengths of the chunks range(0, len(text), chunk_size) cuts a text of n characters into
UniformChunks(n, chunk_size) ==
  [c \in 1..((n + chunk_size - 1) \div chunk_size) |->
     IF c * chunk_size <= n THEN chunk_size ELSE n - (c - 1) * chunk_size]

\* analyze_text without the try/except around the per-keyword work
analyze_text_no_try(string, map) ==
  IF string = <<>> \/ map = <<>> THEN Returned(EmptyDict, EmptyDict)
  ELSE IF Len(string) > CHUNK_SIZE THEN _analyze_text_batched(string, map, CHUNK_SIZE)
  ELSE IF \E i \in 1..Len(map) : map[i][1] \in regex_error THEN Raised
  ELSE KeywordLoop(normalize_text(string), map, 1, EmptyDict, EmptyDict)

analyze_text(string, map) ==
  IF string = <<>> \/ map = <<>> THEN Returned(EmptyDict, EmptyDict)
  ELSE IF Len(string) > CHUNK_SIZE THEN _analyze_text_batched(string, map, CHUNK_SIZE)
  ELSE KeywordLoop(normalize_text(string), map, 1, EmptyDict, EmptyDict)

\* KeywordAnalyzer.analyze delegates to the processor
analyze(string, map) == analyze_text(string, map)

(***************************************************************************)
(* analyze_and_merge_keyword_counts                                        *)
(* Returns [keyword_counts, group_counts, raised, analyzed]; analyzed      *)
(* lists the texts analyzer.analyze was called with.                       *)
(***************************************************************************)
MIN_PART_LEN == 50

\* the length filter with >= in place of >
IsValidPart_ge(t) == t # <<>> /\ Len(StrStrip(t)) >= MIN_PART_LEN

\* the filter without the length test
IsValidPart_nolen(t) == t # <<>>

\* t and len(t.strip()) > 50
IsValidPart(t) == t # <<>> /\ Len(StrStrip(t)) > MIN_PART_LEN

\* for idx, text in enumerate(valid_parts): kw_counts, _ = analyzer.analyze(text, keywords_map)
RECURSIVE AnalyzeParts(_, _, _)
AnalyzeParts(valid_parts, map, idx) ==
  IF idx > Len(valid_parts) THEN <<>>
  ELSE <<analyze(valid_parts[idx], map)>> \o AnalyzeParts(valid_parts, map, idx + 1)

\* the merge adding the counts of the sources
MergeMax_sum(merged, kw_counts) ==
  [k \in (DOMAIN merged) \cup (DOMAIN kw_counts) |-> Get(merged, k, 0) + Get(kw_counts, k, 0)]

\* the merge without the comparison: the last source wins
MergeMax_overwrite(merged, kw_counts) ==
  [k \in (DOMAIN merged) \cup (DOMAIN kw_counts) |->
     IF k \in DOMAIN kw_counts THEN kw_counts[k] ELSE merged[k]]

\* the merge with the comparison reversed: count < current_max
MergeMax_flipped(merged, kw_counts) ==
  [k \in (DOMAIN merged) \cup {x \in DOMAIN kw_counts : kw_counts[x] < Get(merged, x, 0)} |->
     IF k \in DOMAIN kw_counts /\ kw_counts[k] < Get(merged, k, 0)
     THEN kw_counts[k] ELSE merged[k]]

\* the merge keeping the count of the first source a keyword was found in
MergeMax_first(merged, kw_counts) ==
  [k \in (DOMAIN merged) \cup (DOMAIN kw_counts) |->
     IF k \in DOMAIN merged THEN merged[k] ELSE kw_counts[k]]

\* for keyword, count in kw_counts.items(): if count > merged.get(keyword, 0): merged[keyword] = count
MergeMax(merged, kw_counts) ==
  [k \in (DOMAIN merged) \cup {x \in DOMAIN kw_counts : kw_counts[x] > Get(merged, x, 0)} |->
     IF k \in DOMAIN kw_counts /\ kw_counts[k] > Get(merged, k, 0)
     THEN kw_counts[k] ELSE merged[k]]

RECURSIVE MergeLoop(_, _, _)
MergeLoop(all_keyword_counts, idx, merged) ==
  IF idx > Len(all_keyword_counts) THEN merged
  ELSE MergeLoop(all_keyword_counts, idx + 1, MergeMax(merged, all_keyword_counts[idx]))

\* for keyword, count in merged_keyword_counts.items():
\*     group_id = keywords_map.get(keyword, 0); merged_group_counts[group_id] += count
\* over the keys not yet visited
RECURSIVE GroupLoop(_, _, _, _)
GroupLoop(merged, map, todo, gc) ==
  IF todo = {} THEN gc
  ELSE LET keyword  == CHOOSE k \in todo : TRUE
           group_id == MapGet(map, keyword, 0)
       IN  GroupLoop(merged, map, todo \ {keyword},
                     Put(gc, group_id, Get(gc, group_id, 0) + merged[keyword]))

\* return {}, {}
NothingAnalyzed ==
  [keyword_counts |-> EmptyDict, group_counts |-> EmptyDict, raised |-> FALSE,
   analyzed |-> <<>>]

\* an exception of analyzer.analyze on a source leaves the function at that source
FirstRaised(results) ==
  CHOOSE i \in 1..Len(results) :
    results[i].raised /\ \A j \in 1..(i - 1) : ~results[j].raised

\* the merged keyword counts and the group counts computed from them
MergedCounts(valid_parts, map, merged) ==
  [keyword_counts |-> merged,
   group_counts |-> GroupLoop(merged, map, DOMAIN merged, EmptyDict),
   raised |-> FALSE,
   analyzed |-> valid_parts]

\* the merge of the per-source results
MergeResults(valid_parts, map, results) ==
  IF \E i \in 1..Len(results) : results[i].raised
  THEN [keyword_counts |-> EmptyDict, group_counts |-> EmptyDict, raised |-> TRUE,
        analyzed |-> SubSeq(valid_parts, 1, FirstRaised(results))]
  ELSE MergedCounts(valid_parts, map,
                    MergeLoop([i \in 1..Len(results) |-> results[i].keyword_counts],
                              1, EmptyDict))

\* if not valid_parts: return {}, {}; else analyze each source and merge
AnalyzeValid(valid_parts, map) ==
  IF valid_parts = <<>> THEN NothingAnalyzed
  ELSE MergeResults(valid_parts, map, AnalyzeParts(valid_parts, map, 1))

analyze_and_merge_keyword_counts(parts, map) ==
  IF parts = <<>> \/ map = <<>> THEN NothingAnalyzed
  ELSE AnalyzeValid(SelectSeq(parts, IsValidPart), map)

(***************************************************************************)
(* extract_pdf_aggressive without force_ai                                 *)
(* The record holds the locals of the call, the list 'invoked' of the      *)
(* extraction methods called so far, and the two collaborators of the      *)
(* TextExtractor: ocr_reader and ai_service.model (TRUE when set).         *)
(***************************************************************************)
NotExtracting ==
  [pc |-> "none", ocr_reader |-> FALSE, ai_model |-> FALSE, text_parts |-> <<>>,
   native |-> 0, invoked |-> <<>>, text_len |-> 0, kw_count |-> 0, should_ocr |-> FALSE,
   use_ai |-> FALSE, reason |-> "", ocr_added |-> FALSE]

\* if len(self.normalize_text(t)) > minimum: text_parts.append(t)
AppendIfLonger(parts, t, minimum) ==
  IF Len(normalize_text(t)) > minimum THEN Append(parts, t) ELSE parts

\* max(text_parts, key=len) if text_parts else "": the first of the longest
Longest(parts) ==
  IF parts = <<>> THEN <<>>
  ELSE parts[CHOOSE i \in 1..Len(parts) :
               \A j \in 1..Len(parts) :
                 \/ Len(parts[j]) < Len(parts[i])
                 \/ Len(parts[j]) = Len(parts[i]) /\ i <= j]

\* sum(kw_res.values()), over the keys not yet added
RECURSIVE SumValues(_, _)
SumValues(d, keys) ==
  IF keys = {} THEN 0
  ELSE LET k == CHOOSE x \in keys : TRUE
       IN  d[k] + SumValues(d, keys \ {k})

\* sum(kw_res.values()) of analyze_and_merge_keyword_counts(analyzer, parts, map)
MergedTotal(parts, map) ==
  LET kw_res == analyze_and_merge_keyword_counts(parts, map).keyword_counts
  IN  SumValues(kw_res, DOMAIN kw_res)

vn_vocab ==
  { <<"n", "g", "a", "n">>, <<"h", "a", "n", "g">>, <<"t", "a", "i">>,
    <<"c", "h", "i", "n", "h">>, <<"d", "i", "c", "h">>, <<"v", "u">> }

\* indices where a word of string.split() starts
WordStarts(string) ==
  {i \in 1..Len(string) :
     string[i] \notin SpaceChars /\ (i = 1 \/ string[i - 1] \in SpaceChars)}

\* the word of string.split() that starts at index i
WordAt(string, i) ==
  SubSeq(string, i,
         CHOOSE e \in i..Len(string) :
           /\ \A k \in i..e : string[k] \notin SpaceChars
           /\ (e = Len(string) \/ string[e + 1] \in SpaceChars))

\* any(v in w for v in vn_vocab)
IsVnWord(w) == \E v \in vn_vocab : \E i \in 1..Len(w) : OccursAt(w, v, i)

\* words non-empty and vn_count / len(words) < 0.05
LowVietnamese(string) ==
  LET starts == WordStarts(string)
  IN  /\ starts # {}
      /\ 20 * Cardinality({i \in starts : IsVnWord(WordAt(string, i))}) < Cardinality(starts)

\* the decision with the AI fallback also for a text that is too short
Decide_ai_when_short(string, text_len, has_map, kw_count) ==
  IF text_len < 100
  THEN [should_ocr |-> TRUE, use_ai |-> TRUE, reason |-> "Text too short"]
  ELSE IF has_map /\ kw_count = 0
  THEN [should_ocr |-> TRUE, use_ai |-> TRUE, reason |-> "No keywords found"]
  ELSE IF text_len < 200000 /\ text_len > 100 /\ LowVietnamese(string)
  THEN [should_ocr |-> TRUE, use_ai |-> FALSE, reason |-> "Low Vietnamese content"]
  ELSE [should_ocr |-> FALSE, use_ai |-> FALSE, reason |-> ""]

\* Decision Logic: should_ocr, use_ai and reason from the normalized longest source
Decide(string, text_len, has_map, kw_count) ==
  IF text_len < 100
  THEN [should_ocr |-> TRUE, use_ai |-> FALSE, reason |-> "Text too short"]
  ELSE IF has_map /\ kw_count = 0
  THEN [should_ocr |-> TRUE, use_ai |-> TRUE, reason |-> "No keywords found"]
  ELSE IF text_len < 200000 /\ text_len > 100 /\ LowVietnamese(string)
  THEN [should_ocr |-> TRUE, use_ai |-> FALSE, reason |-> "Low Vietnamese content"]
  ELSE [should_ocr |-> FALSE, use_ai |-> FALSE, reason |-> ""]

\* the quality check on the native sources
QualityChecked(ex, map, string, kw_count) ==
  LET d == Decide(string, Len(string), map # <<>>, kw_count)
  IN  [ex EXCEPT !.pc = IF d.should_ocr THEN "ocr" ELSE "done",
                 !.native = Len(ex.text_parts),
                 !.text_len = Len(string),
                 !.kw_count = kw_count,
                 !.should_ocr = d.should_ocr,
                 !.use_ai = d.use_ai,
                 !.reason = d.reason]

\* the local OCR and the re-check of the keywords; total is the re-merged count
AfterOcr(ex, map, ocr_text, total) ==
  IF Len(normalize_text(ocr_text)) > 100
  THEN [ex EXCEPT !.pc = "ai",
                  !.invoked = Append(@, "ocr"),
                  !.text_parts = Append(@, ocr_text),
                  !.ocr_added = TRUE,
                  !.use_ai = IF map # <<>> /\ total > 0 THEN FALSE ELSE @]
  ELSE [ex EXCEPT !.pc = "ai", !.invoked = Append(@, "ocr")]

(***************************************************************************)
(* analyze_text step by step: the locals of one call                       *)
(***************************************************************************)
IdleThread == [pc |-> "idle", normalized |-> <<>>, i |-> 0, kc |-> EmptyDict, gc |-> EmptyDict]

\* normalized_text = self.normalize_text(text); keyword_counts = {}; group_counts = {}
ThreadStart(string, map) ==
  IF string = <<>> \/ map = <<>>
  THEN [pc |-> "done", normalized |-> <<>>, i |-> 0, kc |-> EmptyDict, gc |-> EmptyDict]
  ELSE [pc |-> "loop", normalized |-> normalize_text(string), i |-> 1,
        kc |-> EmptyDict, gc |-> EmptyDict]

\* every call writes to the keyword_counts of the first call
LocalCounts_shared(ths, t) == ths[1].kc

\* keyword_counts is a local of the call
LocalCounts(ths, t) == ths[t].kc

\* one pass of 'for keyword, group_id in keywords_map.items()', item th.i, writing to kc
ThreadCount(th, map, kc, count) ==
  IF count > 0
  THEN [th EXCEPT !.i = @ + 1,
                  !.kc = Put(kc, map[th.i][1], count),
                  !.gc = AddCount(@, map[th.i][2], count)]
  ELSE [th EXCEPT !.i = @ + 1]

ThreadKeyword(th, map, kc) ==
  IF map[th.i][1] \in regex_error THEN [th EXCEPT !.i = @ + 1]
  ELSE ThreadCount(th, map, kc,
                   FindallCount(create_flexible_regex(map[th.i][1]), th.normalized, 1))

(***************************************************************************)
(* Inputs                                                                  *)
(***************************************************************************)
Repeat(ch, n) == [i \in 1..n |-> ch]

\* s, a space, and ch repeated up to a total of n characters
PadTo(s, ch, n) == IF Len(s) + 1 < n THEN s \o <<" ">> \o Repeat(ch, n - Len(s) - 1) ELSE s

NGAN_HANG == <<"n", "g", "a^", "n", " ", "h", "a!", "n", "g">>

HANG == <<"h", "a!", "n", "g">>

MOBILE_BANKING == <<"m", "o", "b", "i", "l", "e", " ", "b", "a", "n", "k", "i", "n", "g">>

\* "ngan hang ngan hang" with diacritics
SourceA == NGAN_HANG \o <<" ">> \o NGAN_HANG

SourceB == NGAN_HANG

\* "mobile banking xuat hien" with diacritics
SourceM == MOBILE_BANKING \o <<" ", "x", "u", "a^'", "t", " ", "h", "i", "e^.", "n">>

\* whitespace and a control character only
SourceBlank == <<" ", "U+0009", "U+0000", "U+000A">>

Sources ==
  { <<>>, SourceBlank, SourceA, SourceB,
    PadTo(SourceA, "x", MIN_PART_LEN + 1),
    PadTo(SourceB, "x", MIN_PART_LEN + 1),
    PadTo(SourceB, "x", MIN_PART_LEN),
    PadTo(SourceB, ".", MIN_PART_LEN + 1),
    PadTo(SourceM, "x", MIN_PART_LEN + 1) }

MaxSources == 2

SourceLists == UNION {[1..n -> Sources] : n \in 0..MaxSources}

KeywordMaps ==
  { <<>>,
    << <<NGAN_HANG, 0>> >>,
    << <<NGAN_HANG, 1>>, <<MOBILE_BANKING, 0>>, <<HANG, 1>>, <<<<"x">>, 2>> >> }

Keys(map) == {map[i][1] : i \in 1..Len(map)}

\* keywords whose pattern construction may fail
Pathological == {HANG}

HashSeeds == {0, 1}

\* chunk sizes _analyze_text_batched is called with
ChunkSizes == {4, 30}

\* words and separators of the texts handed to the matcher
Words ==
  { <<"a">>, <<"b">>, <<"a", "b">>, <<"A", "U+00F8">>, <<"a'", "b">> }

Separators == { <<>>, <<" ">>, <<"-">>, <<"_">>, <<".">> }

MaxWords == 2

RECURSIVE WordTexts(_)
WordTexts(n) ==
  IF n = 0 THEN {<<>>}
  ELSE IF n = 1 THEN Words
  ELSE {t \o sep \o w : t \in WordTexts(n - 1), sep \in Separators, w \in Words}

MatchTexts == UNION {WordTexts(n) : n \in 0..MaxWords}

\* keyword maps of the matcher: keywords with and without a space, with diacritics,
\* with a separator that normalization turns into a space, and too short to match
MatchMaps ==
  { << <<<<"a", " ", "b">>, 0>>, <<<<"a", "b", " ", "b">>, 1>>, <<<<"b">>, 1>> >>,
    << <<<<"a'", "b">>, 0>>, <<<<>>, 1>>, <<<<"a", "b">>, 0>>, <<<<"A", "-", "b">>, 2>> >> }

\* short texts cut into chunks: every text over three characters
BatchChars == {"a", "b", " "}

MaxBatchLen == 6

BatchTexts == UNION {[1..n -> BatchChars] : n \in 0..MaxBatchLen}

\* two keywords of one group and one of another
BatchMaps ==
  { << <<<<"a", "b">>, 0>>, <<<<"a", " ", "b">>, 0>>, <<<<"b", "a">>, 1>> >> }

\* long texts handed to analyze_text: one character, repeated
LongChars == {"y", "1", " ", "U+2026", "U+AC00", "U+AC01"}

LongLengths == {CHUNK_SIZE \div 3 + 1, CHUNK_SIZE \div 2 + 1, CHUNK_SIZE, CHUNK_SIZE + 1}

\* characters of the texts handed to normalize_text alone
NormChars ==
  { "a", "A", "d", "1", " ", "U+0009", "_", "-", ".", "U+0000",
    "a!", "A~", "I!", "u+~", "dd", "DD",
    "U+00B5", "U+00F8", "U+00DF", "U+1E9E", "U+2026", "U+0301", "U+00C4" }

MaxTextLen == 2

NormTexts == UNION {[1..n -> NormChars] : n \in 0..MaxTextLen}

\* the fields __init__ sets
ProcessorFields ==
  [ _whitespace_pattern    |-> "\\s+",
    _non_alnum_pattern     |-> "[^\\w\\s]",
    _word_boundary_pattern |-> "(?<![a-z0-9])({})(?![a-z0-9])",
    _diacritic_table       |-> "str.maketrans(VN_DIACRITIC_MAP)" ]

(***************************************************************************)
(* Calls                                                                   *)
(***************************************************************************)
NoResult ==
  /\ op = "none"
  /\ text_arg = <<>>
  /\ normalized = <<>>
  /\ renormalized = <<>>
  /\ keyword_counts = EmptyDict
  /\ group_counts = EmptyDict
  /\ analyzed = <<>>
  /\ chunk_size_arg = 0
  /\ raised = FALSE
  /\ fixed = <<>>
  /\ keyword_arg = <<>>
  /\ variant_list = <<>>
  /\ match_count = 0
  /\ matches = <<>>
  /\ mode = "none"
  /\ chunk_results = <<>>
  /\ group_totals = <<>>
  /\ long_text = <<>>
  /\ history = <<>>
  /\ threads = <<>>
  /\ callers = <<>>
  /\ extraction = NotExtracting
  /\ instances = <<ProcessorFields>>
  /\ _processor_instance = 1

Init ==
  /\ text_parts \in SourceLists
  /\ keywords_map \in KeywordMaps
  /\ hash_seed \in HashSeeds
  /\ regex_error \in SUBSET (Pathological \cap Keys(keywords_map))
  /\ NoResult

InitNorm ==
  /\ text_parts \in {<<t>> : t \in NormTexts}
  /\ keywords_map = <<>>
  /\ hash_seed = 0
  /\ regex_error = {}
  /\ NoResult

InitMatch ==
  /\ text_parts \in {<<t>> : t \in MatchTexts}
  /\ keywords_map \in MatchMaps
  /\ hash_seed \in HashSeeds
  /\ regex_error = {}
  /\ NoResult

InitBatch ==
  /\ text_parts \in {<<t>> : t \in BatchTexts}
  /\ keywords_map \in BatchMaps
  /\ hash_seed \in HashSeeds
  /\ regex_error = {}
  /\ NoResult

\* one session: a document of one source, long enough for the reconciler or not
InitCalls ==
  /\ text_parts \in {<<PadTo(SourceA, "x", MIN_PART_LEN + 1)>>, <<SourceA>>}
  /\ keywords_map \in {km \in KeywordMaps : Len(km) > 1}
  /\ hash_seed \in HashSeeds
  /\ regex_error = {}
  /\ NoResult

\* sources of the documents analysed concurrently
ConcSources ==
  { SourceA,
    PadTo(SourceA, "x", MIN_PART_LEN + 1),
    PadTo(SourceB, "x", MIN_PART_LEN + 1),
    PadTo(SourceM, "x", MIN_PART_LEN + 1) }

InitConc ==
  /\ text_parts \in UNION {[1..n -> ConcSources] : n \in 0..MaxSources}
  /\ keywords_map \in KeywordMaps \ {<<>>}
  /\ hash_seed = 0
  /\ regex_error \in SUBSET Pathological
  /\ NoResult

\* texts of underscores and spaces, a keyword of underscores and an ordinary one; the
\* set of variants may come out of list() starting from any of its elements
OrderChars == {"_", " "}

MaxOrderLen == 6

OrderTexts == UNION {[1..n -> OrderChars] : n \in 0..MaxOrderLen}

OrderMaps == { << <<<<"_", "_", " ", "_">>, 0>>, <<<<"_", " ", "_", "_", "_">>, 1>> >> }

OrderSeeds == 0..4

InitOrder ==
  /\ text_parts \in {<<t>> : t \in OrderTexts}
  /\ keywords_map \in OrderMaps
  /\ hash_seed \in OrderSeeds
  /\ regex_error = {}
  /\ NoResult

\* callers of get_text_processor in one process
MaxCallers == 3

\* _processor_instance = None, and callers about to call
InitSingleton ==
  /\ text_parts = <<>>
  /\ keywords_map = <<>>
  /\ hash_seed = 0
  /\ regex_error = {}
  /\ op = "none"
  /\ text_arg = <<>>
  /\ normalized = <<>>
  /\ renormalized = <<>>
  /\ keyword_counts = EmptyDict
  /\ group_counts = EmptyDict
  /\ analyzed = <<>>
  /\ chunk_size_arg = 0
  /\ raised = FALSE
  /\ fixed = <<>>
  /\ keyword_arg = <<>>
  /\ variant_list = <<>>
  /\ match_count = 0
  /\ matches = <<>>
  /\ mode = "none"
  /\ chunk_results = <<>>
  /\ group_totals = <<>>
  /\ long_text = <<>>
  /\ history = <<>>
  /\ threads = <<>>
  /\ extraction = NotExtracting
  /\ \E n \in 1..MaxCallers :
       callers = [c \in 1..n |-> [pc |-> "test", made |-> 0, returned |-> 0]]
  /\ instances = <<>>
  /\ _processor_instance = 0

\* what an extraction method can recover of a PDF: nothing, a text too short to keep,
\* texts around the thresholds with and without the keywords and the Vietnamese words
ExtractTexts ==
  { <<>>,
    PadTo(SourceA, "x", MIN_PART_LEN + 1),
    PadTo(SourceA, "x", 100),
    PadTo(SourceA, "x", 101),
    PadTo(SourceM, "x", 101) }

InitExtract ==
  /\ text_parts = <<>>
  /\ keywords_map \in KeywordMaps
  /\ hash_seed = 0
  /\ regex_error = {}
  /\ NoResult

InitLong ==
  /\ text_parts = <<>>
  /\ keywords_map \in KeywordMaps
  /\ hash_seed \in HashSeeds
  /\ regex_error \in SUBSET (Pathological \cap Keys(keywords_map))
  /\ NoResult

Inputs == <<text_parts, keywords_map, hash_seed, regex_error>>

\* results of the calls on a single keyword and of fix_font_errors
KeywordResults == <<fixed, keyword_arg, variant_list, match_count, matches>>

\* what analyze_text and _analyze_text_batched record of their run
BatchTrace == <<mode, chunk_results, group_totals>>

\* state no call of the processor on a document's sources touches
OtherState == <<long_text, history, instances, _processor_instance, threads, callers,
                extraction>>

\* normalize_text(text) on the text of a one-source document
NormalizeText ==
  /\ op = "none"
  /\ Len(text_parts) = 1
  /\ op' = "normalize_text"
  /\ text_arg' = text_parts[1]
  /\ normalized' = normalize_text(text_parts[1])
  /\ UNCHANGED <<Inputs, renormalized, keyword_counts, group_counts, analyzed,
                 chunk_size_arg, raised, KeywordResults, BatchTrace, OtherState>>

\* normalize_text applied to its own result
Renormalize ==
  /\ op = "normalize_text"
  /\ op' = "renormalize"
  /\ renormalized' = normalize_text(normalized)
  /\ UNCHANGED <<Inputs, text_arg, normalized, keyword_counts, group_counts, analyzed,
                 chunk_size_arg, raised, KeywordResults, BatchTrace, OtherState>>

\* analyze_text that removes the keywords it counted from the map it was given
Analyze_consuming ==
  /\ op = "none"
  /\ Len(text_parts) = 1
  /\ \E r \in {analyze(text_parts[1], keywords_map)} :
       /\ keyword_counts' = r.keyword_counts
       /\ group_counts' = r.group_counts
       /\ raised' = r.raised
  /\ op' = "analyze"
  /\ text_arg' = text_parts[1]
  /\ analyzed' = <<text_parts[1]>>
  /\ mode' = analyze_mode(text_parts[1], keywords_map)
  /\ \E cr \in {IF Len(text_parts[1]) > CHUNK_SIZE /\ keywords_map # <<>>
               THEN ChunkResults(text_parts[1], keywords_map, CHUNK_SIZE)
               ELSE <<>>} :
       /\ chunk_results' = cr
       /\ group_totals' = RunningGroupTotals(cr)
  /\ keywords_map' = SelectSeq(keywords_map,
         LAMBDA e : Get(analyze(text_parts[1], keywords_map).keyword_counts, e[1], 0) = 0)
  /\ UNCHANGED <<text_parts, hash_seed, regex_error, normalized, renormalized, chunk_size_arg, KeywordResults,
                 OtherState>>

\* analyzer.analyze(text, keywords_map) on the text of a one-source document
Analyze ==
  /\ op = "none"
  /\ Len(text_parts) = 1
  /\ \E r \in {analyze(text_parts[1], keywords_map)} :
       /\ keyword_counts' = r.keyword_counts
       /\ group_counts' = r.group_counts
       /\ raised' = r.raised
  /\ op' = "analyze"
  /\ text_arg' = text_parts[1]
  /\ analyzed' = <<text_parts[1]>>
  /\ mode' = analyze_mode(text_parts[1], keywords_map)
  /\ \E cr \in {IF Len(text_parts[1]) > CHUNK_SIZE /\ keywords_map # <<>>
               THEN ChunkResults(text_parts[1], keywords_map, CHUNK_SIZE)
               ELSE <<>>} :
       /\ chunk_results' = cr
       /\ group_totals' = RunningGroupTotals(cr)
  /\ UNCHANGED <<Inputs, normalized, renormalized, chunk_size_arg, KeywordResults,
                 OtherState>>

\* processor._analyze_text_batched(text, keywords_map, chunk_size)
AnalyzeBatched ==
  /\ op = "none"
  /\ Len(text_parts) = 1
  /\ \E cs \in ChunkSizes :
       /\ chunk_size_arg' = cs
       /\ \E r \in {_analyze_text_batched(text_parts[1], keywords_map, cs)} :
            /\ keyword_counts' = r.keyword_counts
            /\ group_counts' = r.group_counts
            /\ raised' = r.raised
       /\ \E cr \in {ChunkResults(text_parts[1], keywords_map, cs)} :
            /\ chunk_results' = cr
            /\ group_totals' = RunningGroupTotals(cr)
  /\ mode' = "batch"
  /\ op' = "batched"
  /\ text_arg' = text_parts[1]
  /\ analyzed' = <<text_parts[1]>>
  /\ UNCHANGED <<Inputs, normalized, renormalized, KeywordResults, OtherState>>

\* analyze_and_merge_keyword_counts(analyzer, text_parts, keywords_map)
Reconcile ==
  /\ op = "none"
  /\ \E r \in {analyze_and_merge_keyword_counts(text_parts, keywords_map)} :
       /\ keyword_counts' = r.keyword_counts
       /\ group_counts' = r.group_counts
       /\ raised' = r.raised
       /\ analyzed' = r.analyzed
  /\ op' = "reconcile"
  /\ UNCHANGED <<Inputs, text_arg, normalized, renormalized, chunk_size_arg,
                 KeywordResults, BatchTrace, OtherState>>

\* fix_font_errors(text) on the text of a one-source document
FixFontErrors ==
  /\ op = "none"
  /\ Len(text_parts) = 1
  /\ op' = "fix_font_errors"
  /\ text_arg' = text_parts[1]
  /\ fixed' = fix_font_errors(text_parts[1])
  /\ UNCHANGED <<Inputs, normalized, renormalized, keyword_counts, group_counts, analyzed,
                 chunk_size_arg, raised, keyword_arg, variant_list, match_count, matches,
                 BatchTrace, OtherState>>

\* generate_keyword_variants(keyword) on a keyword of the map
GenerateVariants ==
  /\ op = "none"
  /\ Len(text_parts) = 1
  /\ \E i \in 1..Len(keywords_map) :
       /\ keyword_arg' = keywords_map[i][1]
       /\ variant_list' = generate_keyword_variants(keywords_map[i][1])
  /\ op' = "generate_keyword_variants"
  /\ UNCHANGED <<Inputs, text_arg, normalized, renormalized, keyword_counts, group_counts,
                 analyzed, chunk_size_arg, raised, fixed, match_count, matches,
                 BatchTrace, OtherState>>

\* count_keyword_matches(text, keyword) on the text of a one-source document and a
\* keyword of the map; the method has no try/except of its own
CountMatches ==
  /\ op = "none"
  /\ Len(text_parts) = 1
  /\ \E i \in 1..Len(keywords_map) :
       /\ keyword_arg' = keywords_map[i][1]
       /\ IF keywords_map[i][1] \in regex_error
          THEN match_count' = 0 /\ matches' = <<>> /\ raised' = TRUE
          ELSE /\ match_count' = count_keyword_matches(text_parts[1], keywords_map[i][1])
               /\ matches' = Findall(create_flexible_regex(keywords_map[i][1]),
                                      normalize_text(text_parts[1]), 1)
               /\ raised' = FALSE
  /\ op' = "count_keyword_matches"
  /\ text_arg' = text_parts[1]
  /\ UNCHANGED <<Inputs, normalized, renormalized, keyword_counts, group_counts, analyzed,
                 chunk_size_arg, fixed, variant_list, BatchTrace, OtherState>>

\* analyze_text(text, keywords_map) on a text of n characters ch.  No keyword of the
\* map holds a character the text normalizes to, so no pattern matches and the dicts
\* stay empty, whether the text is matched in one pass or chunk by chunk.
AnalyzeLong ==
  /\ op = "none"
  /\ \E ch \in LongChars, n \in LongLengths :
       /\ \A i \in 1..Len(keywords_map) :
            Range(normalize_text(keywords_map[i][1])) \cap Range(normalize_text(<<ch>>)) = {}
       /\ long_text' = <<ch, n>>
       /\ mode' = analyze_branch(n, keywords_map)
       /\ \E cr \in {IF analyze_branch(n, keywords_map) = "batch"
                    THEN [c \in DOMAIN UniformChunks(n, CHUNK_SIZE) |->
                            ChunkResult(<<ch, UniformChunks(n, CHUNK_SIZE)[c]>>,
                                        Returned(EmptyDict, EmptyDict))]
                    ELSE <<>>} :
            /\ chunk_results' = cr
            /\ group_totals' = RunningGroupTotals(cr)
  /\ op' = "analyze_long"
  /\ keyword_counts' = EmptyDict
  /\ group_counts' = EmptyDict
  /\ raised' = FALSE
  /\ UNCHANGED <<Inputs, text_arg, normalized, renormalized, analyzed, chunk_size_arg,
                 KeywordResults, history, instances, _processor_instance, threads,
                 callers, extraction>>

\* calls one session makes one after the other
MaxCalls == 2

\* the call that has returned and the value it returned
LastCall == <<op, text_arg, keyword_arg>>

LastResult ==
  <<normalized, variant_list, keyword_counts, group_counts, analyzed, raised>>

\* the caller takes the result and goes on to its next call
NextCall ==
  /\ op # "none"
  /\ Len(history) < MaxCalls
  /\ history' = Append(history, [call |-> LastCall, result |-> LastResult])
  /\ op' = "none"
  /\ text_arg' = <<>>
  /\ normalized' = <<>>
  /\ renormalized' = <<>>
  /\ keyword_counts' = EmptyDict
  /\ group_counts' = EmptyDict
  /\ analyzed' = <<>>
  /\ chunk_size_arg' = 0
  /\ raised' = FALSE
  /\ fixed' = <<>>
  /\ keyword_arg' = <<>>
  /\ variant_list' = <<>>
  /\ match_count' = 0
  /\ matches' = <<>>
  /\ mode' = "none"
  /\ chunk_results' = <<>>
  /\ group_totals' = <<>>
  /\ UNCHANGED <<Inputs, long_text, instances, _processor_instance, threads, callers,
                 extraction>>

\* valid_parts = [t for t in text_parts if t and len(t.strip()) > 50]; one analyze call
\* per valid source is handed to a worker
Fork ==
  /\ op = "none"
  /\ keywords_map # <<>>
  /\ \E valid_parts \in {SelectSeq(text_parts, IsValidPart)} :
       /\ valid_parts # <<>>
       /\ analyzed' = valid_parts
       /\ threads' = [t \in 1..Len(valid_parts) |-> IdleThread]
  /\ op' = "forked"
  /\ UNCHANGED <<Inputs, text_arg, normalized, renormalized, keyword_counts, group_counts,
                 chunk_size_arg, raised, KeywordResults, BatchTrace, long_text, history,
                 instances, _processor_instance, callers, extraction>>

\* one worker takes a step of its analyze_text call; the locals of the call are its own
ThreadStep(t) ==
  /\ op = "forked"
  /\ threads[t].pc # "done"
  /\ threads' = [threads EXCEPT ![t] =
       IF threads[t].pc = "idle" THEN ThreadStart(analyzed[t], keywords_map)
       ELSE IF threads[t].i > Len(keywords_map) THEN [threads[t] EXCEPT !.pc = "done"]
       ELSE ThreadKeyword(threads[t], keywords_map, LocalCounts(threads, t))]
  /\ UNCHANGED <<Inputs, op, text_arg, normalized, renormalized, keyword_counts,
                 group_counts, analyzed, chunk_size_arg, raised, KeywordResults, BatchTrace,
                 long_text, history, instances, _processor_instance, callers, extraction>>

Step == \E t \in 1..Len(threads) : ThreadStep(t)

\* all workers have returned: the merge of analyze_and_merge_keyword_counts
Join ==
  /\ op = "forked"
  /\ \A t \in 1..Len(threads) : threads[t].pc = "done"
  /\ \E r \in {MergeResults(analyzed, keywords_map,
                             [t \in 1..Len(threads) |->
                                Returned(threads[t].kc, threads[t].gc)])} :
       /\ keyword_counts' = r.keyword_counts
       /\ group_counts' = r.group_counts
       /\ raised' = r.raised
  /\ op' = "joined"
  /\ UNCHANGED <<Inputs, text_arg, normalized, renormalized, analyzed, chunk_size_arg,
                 KeywordResults, BatchTrace, OtherState>>

Next ==
  \/ NormalizeText \/ Renormalize \/ FixFontErrors \/ GenerateVariants \/ CountMatches
  \/ Analyze \/ AnalyzeBatched \/ Reconcile

Spec == Init /\ [][Next]_vars

NextNorm == NormalizeText \/ Renormalize \/ FixFontErrors

SpecNorm == InitNorm /\ [][NextNorm]_vars

NextMatch == GenerateVariants \/ CountMatches \/ Analyze

SpecMatch == InitMatch /\ [][NextMatch]_vars

NextBatch == Analyze \/ AnalyzeBatched

SpecBatch == InitBatch /\ [][NextBatch]_vars

NextLong == AnalyzeLong

NextCalls == NormalizeText \/ GenerateVariants \/ Analyze \/ Reconcile \/ NextCall

SpecCalls == InitCalls /\ [][NextCalls]_vars

\* if _processor_instance is None:
Test(c) ==
  /\ callers[c].pc = "test"
  /\ callers' = [callers EXCEPT ![c].pc =
                   IF _processor_instance = 0 THEN "construct" ELSE "return"]
  /\ UNCHANGED <<instances, _processor_instance>>

\* VietnameseTextProcessor(): a new object
Construct(c) ==
  /\ callers[c].pc = "construct"
  /\ instances' = Append(instances, ProcessorFields)
  /\ callers' = [callers EXCEPT ![c].pc = "assign", ![c].made = Len(instances) + 1]
  /\ UNCHANGED _processor_instance

\* _processor_instance = <the new object>
Assign(c) ==
  /\ callers[c].pc = "assign"
  /\ _processor_instance' = callers[c].made
  /\ callers' = [callers EXCEPT ![c].pc = "return"]
  /\ UNCHANGED instances

\* return _processor_instance
Return(c) ==
  /\ callers[c].pc = "return"
  /\ callers' = [callers EXCEPT ![c].pc = "done", ![c].returned = _processor_instance]
  /\ UNCHANGED <<instances, _processor_instance>>

\* a step of one of the calls of get_text_processor
GetTextProcessor ==
  /\ \E c \in 1..Len(callers) : Test(c) \/ Construct(c) \/ Assign(c) \/ Return(c)
  /\ UNCHANGED <<Inputs, op, text_arg, normalized, renormalized, keyword_counts,
                 group_counts, analyzed, chunk_size_arg, raised, KeywordResults, BatchTrace,
                 long_text, history, threads, extraction>>

SpecSingleton == InitSingleton /\ [][GetTextProcessor]_vars

\* TextExtractor(): with or without the OCR reader and the Gemini model
NewExtractor ==
  /\ extraction.pc = "none"
  /\ \E reader, model \in BOOLEAN :
       extraction' = [extraction EXCEPT !.pc = "pymupdf", !.ocr_reader = reader,
                                        !.ai_model = model]

\* 1. PyMuPDF; an exception leaves text_parts as an empty extraction does
PyMuPDF ==
  /\ extraction.pc = "pymupdf"
  /\ \E t1 \in ExtractTexts :
       extraction' = [extraction EXCEPT !.pc = "pypdf2",
                                        !.invoked = Append(@, "pymupdf"),
                                        !.text_parts = AppendIfLonger(@, t1, 50)]

\* 2. PyPDF2
PyPDF2 ==
  /\ extraction.pc = "pypdf2"
  /\ \E t2 \in ExtractTexts :
       extraction' = [extraction EXCEPT !.pc = "quality",
                                        !.invoked = Append(@, "pypdf2"),
                                        !.text_parts = AppendIfLonger(@, t2, 50)]

\* Quality Check and Decision Logic
QualityCheck ==
  /\ extraction.pc = "quality"
  /\ \E string \in {normalize_text(Longest(extraction.text_parts))} :
       \E kw_count \in {IF keywords_map # <<>> /\ extraction.text_parts # <<>>
                         THEN MergedTotal(extraction.text_parts, keywords_map) ELSE 0} :
         extraction' = QualityChecked(extraction, keywords_map, string, kw_count)

\* if should_ocr: if self.ocr_reader: extract_pdf_ocr and the re-check
LocalOcr ==
  /\ extraction.pc = "ocr"
  /\ IF extraction.ocr_reader
     THEN \E ocr_text \in ExtractTexts :
            \E total \in {IF keywords_map # <<>>
                            THEN MergedTotal(Append(extraction.text_parts, ocr_text),
                                             keywords_map)
                            ELSE 0} :
              extraction' = AfterOcr(extraction, keywords_map, ocr_text, total)
     ELSE extraction' = [extraction EXCEPT !.pc = "ai"]

\* if use_ai and self.ai_service.model: extract_pdf_ai
GeminiAi ==
  /\ extraction.pc = "ai"
  /\ IF extraction.use_ai /\ extraction.ai_model
     THEN \E ai_text \in ExtractTexts :
            extraction' = [extraction EXCEPT !.pc = "done",
                                             !.invoked = Append(@, "ai"),
                                             !.text_parts = IF ai_text # <<>>
                                                            THEN Append(@, ai_text) ELSE @]
     ELSE extraction' = [extraction EXCEPT !.pc = "done"]

ExtractPdfAggressive ==
  /\ NewExtractor \/ PyMuPDF \/ PyPDF2 \/ QualityCheck \/ LocalOcr \/ GeminiAi
  /\ UNCHANGED <<Inputs, op, text_arg, normalized, renormalized, keyword_counts,
                 group_counts, analyzed, chunk_size_arg, raised, KeywordResults, BatchTrace,
                 long_text, history, instances, _processor_instance, threads, callers>>

SpecExtract == InitExtract /\ [][ExtractPdfAggressive]_vars

NextOrder == GenerateVariants \/ CountMatches

SpecOrder == InitOrder /\ [][NextOrder]_vars

SpecReconcile == InitConc /\ [][Reconcile]_vars

NextConc == Fork \/ Step \/ Join

SpecConc == InitConc /\ [][NextConc]_vars

SpecLong == InitLong /\ [][NextLong]_vars

(***************************************************************************)
(* Properties                                                              *)
(***************************************************************************)
Max(S) == CHOOSE m \in S : \A n \in S : n <= m

\* the sources that pass the length filter of the reconciler
Surviving == SelectSeq(text_parts, LAMBDA t : t # <<>> /\ Len(StrStrip(t)) > MIN_PART_LEN)

\* what analyze returns for keyword k on the single source s
CountOn(s, k) == Get(analyze(s, keywords_map).keyword_counts, k, 0)

PaddedA == PadTo(SourceA, "x", MIN_PART_LEN + 1)

PaddedB == PadTo(SourceB, "x", MIN_PART_LEN + 1)

PaddedM == PadTo(SourceM, "x", MIN_PART_LEN + 1)

OnlyNganHang == << <<NGAN_HANG, 0>> >>

\* C1: the count reconcile returns for a keyword is the maximum of the counts analyze
\* returns for it on the single surviving sources, and the keyword is absent exactly
\* when that maximum is 0.
C1_MaxOfSources ==
  op = "reconcile" =>
    \A per \in {[i \in 1..Len(Surviving) |-> analyze(Surviving[i], keywords_map).keyword_counts]} :
      LET best(k) == Max({0} \cup {Get(per[i], k, 0) : i \in 1..Len(Surviving)})
      IN  /\ DOMAIN keyword_counts \subseteq Keys(keywords_map)
          /\ \A k \in Keys(keywords_map) :
               /\ (k \in DOMAIN keyword_counts) <=> (best(k) > 0)
               /\ (k \in DOMAIN keyword_counts) => (keyword_counts[k] = best(k))

\* two surviving sources count the keyword 2 and 1 times; the merged count is 2, the sum 3
C1_Witness ==
  /\ op = "reconcile"
  /\ text_parts = <<PaddedB, PaddedA>>
  /\ NGAN_HANG \in DOMAIN keyword_counts
  /\ keyword_counts[NGAN_HANG] = 2

\* C2 as stated: reconcile on A, B and {"ngan hang": 0} returns the count 2.
C2_AsStated ==
  (op = "reconcile" /\ text_parts = <<SourceA, SourceB>> /\ keywords_map = OnlyNganHang)
    => (NGAN_HANG \in DOMAIN keyword_counts /\ keyword_counts[NGAN_HANG] = 2)

\* C2 amended: A and B themselves are too short and give empty counts; padded with
\* unrelated text beyond 50 characters they give the count 2, the max of 2 and 1.
C2_MaxOfPadded ==
  /\ (op = "reconcile" /\ text_parts = <<SourceA, SourceB>> /\ keywords_map = OnlyNganHang)
       => (keyword_counts = EmptyDict /\ group_counts = EmptyDict)
  /\ (op = "reconcile" /\ text_parts = <<PaddedA, PaddedB>> /\ keywords_map = OnlyNganHang)
       => (DOMAIN keyword_counts = {NGAN_HANG} /\ keyword_counts[NGAN_HANG] = 2)

C2_Witness ==
  /\ op = "reconcile"
  /\ text_parts = <<PaddedA, PaddedB>>
  /\ keywords_map = OnlyNganHang
  /\ keyword_counts[NGAN_HANG] = 2

\* C3 as stated: a keyword that analyze counts on any one supplied source is present
\* in the merged counts.
C3_AsStated ==
  op = "reconcile" =>
    \A per \in {[i \in 1..Len(text_parts) |-> analyze(text_parts[i], keywords_map).keyword_counts]} :
        \A k \in Keys(keywords_map) : \A i \in 1..Len(text_parts) :
          Get(per[i], k, 0) >= 1
            => (k \in DOMAIN keyword_counts /\ keyword_counts[k] >= 1)

\* C3 amended: a keyword that analyze counts on any one supplied source of more than
\* 50 characters (surrounding whitespace stripped) is present in the merged counts
\* with a count of at least 1.
C3_Coverage ==
  op = "reconcile" =>
    \A per \in {[i \in 1..Len(text_parts) |-> analyze(text_parts[i], keywords_map).keyword_counts]} :
        \A k \in Keys(keywords_map) : \A i \in 1..Len(text_parts) :
          (Len(StrStrip(text_parts[i])) > MIN_PART_LEN /\ Get(per[i], k, 0) >= 1)
            => (k \in DOMAIN keyword_counts /\ keyword_counts[k] >= 1)

\* only the second source contains "mobile banking"
C3_Witness ==
  /\ op = "reconcile"
  /\ text_parts = <<PaddedB, PaddedM>>
  /\ MOBILE_BANKING \in DOMAIN keyword_counts
  /\ keyword_counts[MOBILE_BANKING] = 1

\* C4 as stated: a source is analyzed if and only if its normalized text has 50 or
\* more characters.
C4_AsStated ==
  op = "reconcile" =>
    \A i \in 1..Len(text_parts) :
      (text_parts[i] \in Range(analyzed)) <=> (Len(normalize_text(text_parts[i])) >= MIN_PART_LEN)

\* C4 amended: with a non-empty keyword map, a source is analyzed if and only if the
\* source itself, surrounding whitespace stripped, has more than 50 characters.
C4_LengthFilter ==
  (op = "reconcile" /\ keywords_map # <<>>) =>
    /\ \A i \in 1..Len(text_parts) :
         (text_parts[i] \in Range(analyzed)) <=> (Len(StrStrip(text_parts[i])) > MIN_PART_LEN)
    /\ Len(analyzed) = Cardinality({i \in 1..Len(text_parts) :
                                      Len(StrStrip(text_parts[i])) > MIN_PART_LEN})

\* 50 characters that normalize to 50 characters are discarded, 51 characters that
\* normalize to 9 are analyzed
C4_Witness ==
  /\ op = "reconcile"
  /\ keywords_map # <<>>
  /\ text_parts = <<PadTo(SourceB, "x", MIN_PART_LEN), PadTo(SourceB, ".", MIN_PART_LEN + 1)>>
  /\ Len(normalize_text(text_parts[1])) = MIN_PART_LEN
  /\ Len(normalize_text(text_parts[2])) < MIN_PART_LEN
  /\ analyzed = <<text_parts[2]>>

\* C5: with an empty source list, or with every source filtered out as too short,
\* reconcile returns empty keyword and group counts, does not raise, and analyze is
\* not called.
C5_NothingToAnalyze ==
  (/\ op = "reconcile"
   /\ \A i \in 1..Len(text_parts) : Len(StrStrip(text_parts[i])) <= MIN_PART_LEN)
    => /\ keyword_counts = EmptyDict
       /\ group_counts = EmptyDict
       /\ analyzed = <<>>
       /\ ~raised

\* two sources that contain the keyword and are both too short
C5_Witness ==
  /\ op = "reconcile"
  /\ text_parts = <<SourceB, SourceA>>
  /\ keywords_map # <<>>
  /\ CountOn(SourceA, NGAN_HANG) = 2
  /\ keyword_counts = EmptyDict
  /\ analyzed = <<>>

\* sum of the counts of the keywords the map assigns to group g
RECURSIVE GroupSum(_, _, _, _)
GroupSum(map, kc, g, i) ==
  IF i > Len(map) THEN 0
  ELSE (IF map[i][2] = g THEN Get(kc, map[i][1], 0) ELSE 0) + GroupSum(map, kc, g, i + 1)

GroupIds(map) == {map[i][2] : i \in 1..Len(map)}

\* C6: in every result of analyze, of batch analysis and of reconcile, the count of a
\* group (0 if absent) is the sum of the counts of the keywords the map assigns to it.
C6_GroupInvariant ==
  op \in {"analyze", "batched", "reconcile"} =>
    \A g \in GroupIds(keywords_map) \cup DOMAIN group_counts :
      Get(group_counts, g, 0) = GroupSum(keywords_map, keyword_counts, g, 1)

\* two keywords of group 1 are counted in one text
C6_Witness ==
  /\ op = "analyze"
  /\ NGAN_HANG \in DOMAIN keyword_counts
  /\ HANG \in DOMAIN keyword_counts
  /\ MapGet(keywords_map, NGAN_HANG, 0) = 1
  /\ MapGet(keywords_map, HANG, 0) = 1
  /\ group_counts[1] = keyword_counts[NGAN_HANG] + keyword_counts[HANG]

\* C7: normalize_text is idempotent.
C7_Idempotent == op = "renormalize" => renormalized = normalized

\* a lowercase letter without diacritic, a digit or a space
IsCanonicalChar(ch) ==
  \/ ch = " "
  \/ /\ ch \in WordChars
     /\ ch # "_"
     /\ ch \notin Uppercase
     /\ ch \notin Decomposable
     /\ ch \notin DiacriticLetters
     /\ ch \notin Mn

\* C8: every character of normalize_text(text) is a lowercase letter, a digit or a
\* space, without leading or trailing space and without two consecutive whitespace
\* characters.
C8_CanonicalForm ==
  op = "normalize_text" =>
    /\ \A i \in 1..Len(normalized) : IsCanonicalChar(normalized[i])
    /\ normalized # <<>> => (normalized[1] # " " /\ normalized[Len(normalized)] # " ")
    /\ \A i \in 1..(Len(normalized) - 1) :
         ~(normalized[i] \in SpaceChars /\ normalized[i + 1] \in SpaceChars)

\* C9: normalize_text and analyze never raise, normalize_text("") is "", and analyze
\* with an empty text or an empty keyword map returns empty counts.
C9_Total ==
  /\ op \in {"normalize_text", "renormalize", "analyze", "batched", "reconcile"} => ~raised
  /\ (op = "normalize_text" /\ text_arg = <<>>) => normalized = <<>>
  /\ (op = "analyze" /\ (text_arg = <<>> \/ keywords_map = <<>>))
       => (keyword_counts = EmptyDict /\ group_counts = EmptyDict)

\* analyze returned on a text of whitespace and control characters while the pattern
\* of one keyword could not be built
C9_Witness ==
  /\ op = "analyze"
  /\ text_arg = SourceBlank
  /\ regex_error # {}
  /\ keyword_counts = EmptyDict
  /\ ~raised

AsciiLetters ==
  {"a", "b", "c", "d", "e", "f", "g", "h", "i", "j", "k", "l", "m", "n", "o", "p", "q",
   "r", "s", "t", "u", "v", "w", "x", "y", "z",
   "A", "B", "C", "D", "E", "F", "G", "H", "I", "J", "K", "L", "M", "N", "O", "P", "Q",
   "R", "S", "T", "U", "V", "W", "X", "Y", "Z"}

\* the lowercase base letter of a letter, as the diacritic table gives it
BaseLetter(ch) ==
  IF ch \in DiacriticLetters THEN VN_DIACRITIC_MAP[ch]
  ELSE IF ch \in Uppercase THEN LowerMap[ch][1] ELSE ch

\* words of Vietnamese and ASCII letters separated by single spaces
IsVietnameseWords(s) ==
  /\ s # <<>>
  /\ \A i \in 1..Len(s) : s[i] \in DiacriticLetters \cup AsciiLetters \cup {" "}
  /\ s[1] # " " /\ s[Len(s)] # " "
  /\ \A i \in 1..(Len(s) - 1) : ~(s[i] = " " /\ s[i + 1] = " ")

\* C10: on a text of precomposed Vietnamese letters, ASCII letters and spaces,
\* normalize_text returns the text with every letter replaced by its lowercase base
\* letter, spacing preserved.
C10_BaseLetters ==
  (op = "normalize_text" /\ IsVietnameseWords(text_arg)) =>
    normalized = [i \in 1..Len(text_arg) |-> BaseLetter(text_arg[i])]

(***************************************************************************)
(* Encoding repair and the normalization pipeline                          *)
(***************************************************************************)
Digits == {"0", "1", "2", "3", "4", "5", "6", "7", "8", "9"}

\* texts of valid Vietnamese letters, ASCII letters, digits and spaces
IsValidVietnamese(s) ==
  \A i \in 1..Len(s) : s[i] \in DiacriticLetters \cup AsciiLetters \cup Digits \cup {" "}

\* C11: fix_font_errors returns a text of valid Vietnamese letters, ASCII letters,
\* digits and spaces unchanged.
C11_ValidUnchanged ==
  (op = "fix_font_errors" /\ IsValidVietnamese(text_arg)) => fixed = text_arg

\* the repair-table items whose pattern has at least two characters, and one character
LongFixes == SelectSeq(VN_FONT_FIX_MAP, LAMBDA it : Len(it[1]) >= 2)

ShortFixes == SelectSeq(VN_FONT_FIX_MAP, LAMBDA it : Len(it[1]) = 1)

\* some pattern of the repair table occurs in s
HasPattern(s) ==
  \E k \in 1..Len(VN_FONT_FIX_MAP) : \E i \in 1..Len(s) :
    OccursAt(s, VN_FONT_FIX_MAP[k][1], i)

\* C12: fix_font_errors replaces every pattern of two or more characters throughout
\* the text before any pattern of one character; an occurrence of a two-character
\* pattern is repaired as a unit, whatever surrounds it; a text without any pattern
\* is returned unchanged.
C12_LongestFirst ==
  op = "fix_font_errors" =>
    /\ fixed = ApplyFixes(ApplyFixes(text_arg, LongFixes, 1), ShortFixes, 1)
    /\ \A k \in 1..Len(LongFixes) : \A i \in 1..Len(text_arg) :
         OccursAt(text_arg, LongFixes[k][1], i)
           => fixed = fix_font_errors(SubSeq(text_arg, 1, i - 1))
                      \o LongFixes[k][2]
                      \o fix_font_errors(SubSeq(text_arg, i + Len(LongFixes[k][1]),
                                                 Len(text_arg)))
    /\ ~HasPattern(text_arg) => fixed = text_arg

\* the mojibake of o-tilde, whose second character is itself a one-character pattern
C12_Witness ==
  /\ op = "fix_font_errors"
  /\ text_arg = <<"A~", "U+00B5">>
  /\ fixed = <<"o~">>

\* stage 5 as the pipeline describes it: every character that is not a letter, a digit
\* or a space becomes a space
Stage5(text) ==
  [i \in 1..Len(text) |->
     IF text[i] \in WordChars \ {"_"} \/ text[i] = " " THEN text[i] ELSE " "]

\* C13: normalize_text is encoding repair, lowercasing, d-stroke substitution,
\* diacritic folding, replacement of every character that is not a letter, digit or
\* space by a space, and whitespace collapse with trim, in this order.
C13_Pipeline ==
  op = "normalize_text" =>
    normalized =
      StrStrip(WhitespaceSub(Stage5(remove_diacritics(
        StrReplace(StrReplace(StrLower(fix_font_errors(text_arg)), <<"dd">>, <<"d">>),
                   <<"DD">>, <<"d">>)))))

(***************************************************************************)
(* Keyword variants and matching                                           *)
(***************************************************************************)
\* s with every space replaced by the character c
Joined(s, c) == [i \in 1..Len(s) |-> IF s[i] = " " THEN c ELSE s[i]]

\* s without its spaces
NoSpace(s) == SelectSeq(s, LAMBDA ch : ch # " ")

\* the variant set the contract gives a normalized keyword n
ExpectedVariants(n) ==
  IF Len(n) < 2 THEN {}
  ELSE IF \A i \in 1..Len(n) : n[i] # " " THEN {n}
  ELSE {n, Joined(n, "-"), Joined(n, "_"), Joined(n, ".")}
       \cup (IF Len(NoSpace(n)) >= 3 THEN {NoSpace(n)} ELSE {})

\* C14: generate_keyword_variants returns, without duplicates, nothing for a keyword
\* whose normalized form has fewer than 2 characters, the normalized form alone when it
\* has no space, and otherwise the normalized form, its hyphen-, underscore- and
\* dot-joined forms, and the no-space form exactly when that has at least 3 characters.
C14_Variants ==
  op = "generate_keyword_variants" =>
    /\ Range(variant_list) = ExpectedVariants(normalize_text(keyword_arg))
    /\ \A i, j \in 1..Len(variant_list) : variant_list[i] = variant_list[j] => i = j

\* a keyword of two letters around a space: four variants, the two-letter joined form
\* is left out
C14_Witness ==
  /\ op = "generate_keyword_variants"
  /\ keyword_arg = <<"A", "-", "b">>
  /\ Len(variant_list) = 4
  /\ <<"a", "b">> \notin Range(variant_list)
  /\ <<"a", "_", "b">> \in Range(variant_list)

\* letters and digits
Alphanumeric == WordChars \ {"_"}

\* the spelling v stands at index p of s, between non-alphanumeric characters or text ends
IsOccurrence(s, v, p) ==
  /\ p + Len(v) - 1 <= Len(s)
  /\ SubSeq(s, p, p + Len(v) - 1) = v
  /\ (p = 1 \/ s[p - 1] \notin Alphanumeric)
  /\ (p + Len(v) > Len(s) \/ s[p + Len(v)] \notin Alphanumeric)

\* <<index, length>> of the occurrences in s of the spellings vs
Occurrences(s, vs) ==
  {o \in (1..Len(s)) \X {Len(v) : v \in vs} :
     \E v \in vs : Len(v) = o[2] /\ IsOccurrence(s, v, o[1])}

Overlap(a, b) == a # b /\ a[1] < b[1] + b[2] /\ b[1] < a[1] + a[2]

\* the occurrences that overlap no other occurrence
Isolated(occ) == {o \in occ : \A o2 \in occ : ~Overlap(o, o2)}

\* the five spellings of a normalized keyword n
AllSpellings(n) == {n, NoSpace(n), Joined(n, "-"), Joined(n, "_"), Joined(n, ".")}

\* the spellings that can stand in a normalized text and are variants
NormalizedSpellings(n) ==
  {n, Joined(n, "_")} \cup (IF Len(NoSpace(n)) >= 3 THEN {NoSpace(n)} ELSE {})

HasSpace(n) == \E i \in 1..Len(n) : n[i] = " "

\* C15 as stated: for a keyword whose normalized form contains a space, every occurrence
\* in the source text of one of its five spellings, between non-alphanumeric characters
\* or text ends, is counted as a match.
C15_AsStated ==
  (op = "count_keyword_matches" /\ HasSpace(normalize_text(keyword_arg))) =>
    match_count >=
      Cardinality(Occurrences(text_arg, AllSpellings(normalize_text(keyword_arg))))

\* number of occurrences count must at least report for keyword kw on text
Tolerated(text, kw) ==
  Cardinality(Isolated(Occurrences(normalize_text(text),
                                   NormalizedSpellings(normalize_text(kw)))))

\* C15: for a keyword whose normalized form contains a space, every occurrence in the
\* normalized text of the space-separated spelling, the underscore-joined spelling, or
\* the concatenated spelling of at least 3 characters, between non-alphanumeric
\* characters or text ends and overlapping no other such occurrence, is counted as a
\* match by count_keyword_matches and by single-pass analyze; on a text that normalizes
\* to a concatenated spelling of fewer than 3 characters the count is 0.
C15_VariantTolerance ==
  /\ (op = "count_keyword_matches" /\ HasSpace(normalize_text(keyword_arg))) =>
       /\ match_count >= Tolerated(text_arg, keyword_arg)
       /\ (Len(normalize_text(text_arg)) < 3
            /\ normalize_text(text_arg) = NoSpace(normalize_text(keyword_arg)))
           => match_count = 0
  /\ (op = "analyze" /\ Len(text_arg) <= CHUNK_SIZE) =>
       \A i \in 1..Len(keywords_map) :
         HasSpace(normalize_text(keywords_map[i][1]))
           => Get(keyword_counts, keywords_map[i][1], 0)
                >= Tolerated(text_arg, keywords_map[i][1])

\* a hyphen-joined spelling in the source, counted once
C15_Witness ==
  /\ op = "count_keyword_matches"
  /\ keyword_arg = <<"a", "b", " ", "b">>
  /\ text_arg = <<"a", "b", "-", "b">>
  /\ Tolerated(text_arg, keyword_arg) = 1
  /\ match_count = 1

\* lowercase letters and digits
LowerOrDigit ==
  Digits \cup (Alphanumeric \ (Uppercase \cup Digits
                                \cup {"U+00AA", "U+00BA", "U+00B2", "U+00B3", "U+00B9"}))

\* C16: no match counted by count_keyword_matches is immediately preceded or immediately
\* followed, in the normalized text, by a lowercase letter or a digit.
C16_Boundaries ==
  (op = "count_keyword_matches" /\ ~raised) =>
    /\ Len(matches) = match_count
    /\ \A m \in 1..Len(matches) :
         \A s \in {normalize_text(text_arg)} :
           /\ matches[m][1] = 1 \/ s[matches[m][1] - 1] \notin LowerOrDigit
           /\ \/ matches[m][1] + matches[m][2] > Len(s)
              \/ s[matches[m][1] + matches[m][2]] \notin LowerOrDigit

\* the keyword is empty or shorter than 2 characters after normalization
IsDegenerate(keyword) == Len(normalize_text(keyword)) < 2

\* the keyword map without its degenerate keywords
NonDegenerate(map) == SelectSeq(map, LAMBDA item : ~IsDegenerate(item[1]))

\* C17: a keyword that is empty or shorter than 2 characters after normalization has no
\* variant; counting it raises nothing and gives 0 on every text; analyze leaves it out
\* of the keyword counts and counts the other keywords as if it were not in the map.
C17_Degenerate ==
  /\ (op = "generate_keyword_variants" /\ IsDegenerate(keyword_arg))
       => variant_list = <<>>
  /\ (op = "count_keyword_matches" /\ IsDegenerate(keyword_arg))
       => ~raised /\ match_count = 0 /\ matches = <<>>
  /\ op = "analyze" =>
       /\ ~raised
       /\ \A i \in 1..Len(keywords_map) :
            IsDegenerate(keywords_map[i][1])
              => keywords_map[i][1] \notin DOMAIN keyword_counts
       /\ \A r \in {analyze(text_arg, NonDegenerate(keywords_map))} :
            keyword_counts = r.keyword_counts /\ group_counts = r.group_counts

\* the keyword "b" stands alone in the text and is not counted; "a b" is
C17_Witness ==
  /\ op = "analyze"
  /\ text_arg = <<"a", " ", "b">>
  /\ <<"b">> \in Keys(keywords_map)
  /\ DOMAIN keyword_counts = {<<"a", " ", "b">>}

\* C18: the count of a keyword on a text is the count on the normalized text, the count
\* of the normalized keyword, and the count of the normalized keyword on the normalized
\* text.
C18_DiacriticInvariant ==
  (op = "count_keyword_matches" /\ ~raised) =>
    /\ match_count = count_keyword_matches(normalize_text(text_arg), keyword_arg)
    /\ match_count = count_keyword_matches(text_arg, normalize_text(keyword_arg))
    /\ match_count = count_keyword_matches(normalize_text(text_arg),
                                           normalize_text(keyword_arg))

(***************************************************************************)
(* Results of analyze                                                      *)
(***************************************************************************)
\* C19: in every result of analyze, of batch analysis and of reconcile, every key of the
\* keyword counts is a keyword of the map as authored and every value is an integer of
\* at least 1.
C19_Sparse ==
  op \in {"analyze", "batched", "reconcile"} =>
    /\ DOMAIN keyword_counts \subseteq Keys(keywords_map)
    /\ \A k \in DOMAIN keyword_counts : keyword_counts[k] \in Nat /\ keyword_counts[k] >= 1

\* reconcile counted one keyword of the map and left out another that matched nowhere
C19_Witness ==
  /\ op = "reconcile"
  /\ NGAN_HANG \in DOMAIN keyword_counts
  /\ MOBILE_BANKING \in Keys(keywords_map) \ DOMAIN keyword_counts
  /\ regex_error = {}

\* the keyword map without the keywords whose pattern fails
NotFailing(map) == SelectSeq(map, LAMBDA item : item[1] \notin regex_error)

\* C20: when the pattern of a keyword fails during analyze, single-pass or batch, the
\* call returns, the keyword is in no count, and the keyword counts and group counts
\* are those of the same call on the map without the failing keywords.
C20_Isolation ==
  /\ op = "analyze" =>
       /\ ~raised
       /\ DOMAIN keyword_counts \cap regex_error = {}
       /\ \A r \in {analyze(text_arg, NotFailing(keywords_map))} :
            keyword_counts = r.keyword_counts /\ group_counts = r.group_counts
  /\ op = "batched" =>
       /\ ~raised
       /\ DOMAIN keyword_counts \cap regex_error = {}
       /\ \A r \in {_analyze_text_batched(text_arg, NotFailing(keywords_map),
                                            chunk_size_arg)} :
            keyword_counts = r.keyword_counts /\ group_counts = r.group_counts

\* batch analysis of a text holding the failing keyword, with another keyword counted
C20_Witness ==
  /\ op = "batched"
  /\ regex_error = {HANG}
  /\ text_arg = PaddedA
  /\ DOMAIN keyword_counts = {NGAN_HANG}

(***************************************************************************)
(* Batch mode                                                              *)
(***************************************************************************)
\* C21: analyze_text takes the batch branch for every text whose normalized form is
\* longer than CHUNK_SIZE characters.
C21_BatchSwitch ==
  (op = "analyze_long" /\ keywords_map # <<>>
   /\ UniformNormalizedLen(long_text[1], long_text[2]) > CHUNK_SIZE)
    => mode = "batch"

\* the chunks of the last batch analysis
ChunkTexts == [c \in 1..Len(chunk_results) |-> chunk_results[c].chunk]

\* sum over the chunks from c on of the count recorded for keyword k
RECURSIVE ChunkSum(_, _)
ChunkSum(k, c) ==
  IF c > Len(chunk_results) THEN 0
  ELSE Get(chunk_results[c].keyword_counts, k, 0) + ChunkSum(k, c + 1)

\* C22: in batch mode the chunks are non-empty, all of the chunk size but possibly the
\* last, and their concatenation is the text; every chunk is normalized and matched on
\* its own; the count returned for a keyword is the sum of its counts in the chunks.
C22_Partition ==
  op = "batched" =>
    /\ Flatten(ChunkTexts) = text_arg
    /\ \A c \in 1..Len(chunk_results) :
         /\ Len(ChunkTexts[c]) >= 1
         /\ Len(ChunkTexts[c]) <= chunk_size_arg
         /\ c < Len(chunk_results) => Len(ChunkTexts[c]) = chunk_size_arg
         /\ \A i \in 1..Len(keywords_map) :
              Get(chunk_results[c].keyword_counts, keywords_map[i][1], 0)
                = IF keywords_map[i][1] \in regex_error THEN 0
                  ELSE count_keyword_matches(ChunkTexts[c], keywords_map[i][1])
    /\ \A i \in 1..Len(keywords_map) :
         Get(keyword_counts, keywords_map[i][1], 0) = ChunkSum(keywords_map[i][1], 1)
    /\ DOMAIN keyword_counts \subseteq Keys(keywords_map)

\* "ab  ab" in chunks of 4: one match in each of the two chunks
C22_Witness ==
  /\ op = "batched"
  /\ chunk_size_arg = 4
  /\ text_arg = <<"a", "b", " ", " ", "a", "b">>
  /\ Len(chunk_results) = 2
  /\ chunk_results[1].keyword_counts = (<<"a", "b">> :> 1)
  /\ chunk_results[2].keyword_counts = (<<"a", "b">> :> 1)
  /\ keyword_counts = (<<"a", "b">> :> 2)

\* C23 as stated: in batch mode the group counts are computed from the summed keyword
\* counts after the last chunk; the per-chunk group counts are never added into a total
\* while the chunks are processed.
C23_AsStated ==
  op = "batched" =>
    /\ \A g \in GroupIds(keywords_map) \cup DOMAIN group_counts :
         Get(group_counts, g, 0) = GroupSum(keywords_map, keyword_counts, g, 1)
    /\ \A c \in 1..Len(group_totals) : group_totals[c] = EmptyDict

\* sum over the chunks from c on of the count recorded for group g
RECURSIVE ChunkGroupSum(_, _)
ChunkGroupSum(g, c) ==
  IF c > Len(chunk_results) THEN 0
  ELSE Get(chunk_results[c].group_counts, g, 0) + ChunkGroupSum(g, c + 1)

\* C23: in batch mode the returned group counts are the running total to which the
\* group counts of every chunk were added, chunk after chunk, and they equal the group
\* counts recomputed from the summed keyword counts.
C23_GroupCounts ==
  op = "batched" =>
    /\ \A g \in GroupIds(keywords_map) \cup DOMAIN group_counts :
         /\ Get(group_counts, g, 0) = GroupSum(keywords_map, keyword_counts, g, 1)
         /\ Get(group_counts, g, 0) = ChunkGroupSum(g, 1)
    /\ Len(group_totals) = Len(chunk_results)
    /\ \A c \in 1..Len(group_totals) :
         group_totals[c] = SumInto(IF c = 1 THEN EmptyDict ELSE group_totals[c - 1],
                                   chunk_results[c].group_counts)
    /\ group_totals # <<>> => group_counts = group_totals[Len(group_totals)]

\* "a b ab" in chunks of 4: group 0 gets 1 from "a b" in the first chunk and 1 from
\* "ab" in the second
C23_Witness ==
  /\ op = "batched"
  /\ chunk_size_arg = 4
  /\ text_arg = <<"a", " ", "b", " ", "a", "b">>
  /\ group_totals = << (0 :> 1), (0 :> 2) >>
  /\ group_counts = (0 :> 2)

(***************************************************************************)
(* Determinism and purity                                                  *)
(***************************************************************************)
\* what the calls must leave alone: the source list, the keyword map, the processor
Shared == <<text_parts, keywords_map, instances, _processor_instance>>

C25_Interleaving ==
  op = "joined" =>
    /\ \A t \in 1..Len(threads) :
         Returned(threads[t].kc, threads[t].gc) = analyze(analyzed[t], keywords_map)
    /\ \E r \in {analyze_and_merge_keyword_counts(text_parts, keywords_map)} :
         /\ keyword_counts = r.keyword_counts
         /\ group_counts = r.group_counts
         /\ raised = r.raised
         /\ analyzed = r.analyzed

\* two different sources analysed concurrently, both with matches, merged
C25_Witness ==
  /\ op = "joined"
  /\ Len(threads) = 2
  /\ threads[1].kc # EmptyDict
  /\ threads[2].kc # EmptyDict
  /\ threads[1].kc # threads[2].kc
  /\ keyword_counts # EmptyDict

(***************************************************************************)
(* Batch mode against the single pass                                      *)
(***************************************************************************)
\* the count of the keyword on the whole text, normalized and matched in one pass
SinglePassCount(string, keyword) ==
  FindallCount(create_flexible_regex(keyword), normalize_text(string), 1)

\* C26: for a text longer than the chunk size, the batch-mode count of every keyword
\* is at most the count of the keyword on the whole text in a single pass.
C26_NoOvercount ==
  (op = "batched" /\ Len(text_arg) > chunk_size_arg) =>
    \A i \in 1..Len(keywords_map) :
      Get(keyword_counts, keywords_map[i][1], 0)
        <= SinglePassCount(text_arg, keywords_map[i][1])

(***************************************************************************)
(* The order of the variants in the pattern                                *)
(***************************************************************************)
\* the list started k elements later
Rotation(list, k) ==
  [i \in 1..Len(list) |-> list[((i - 1 + k) % Len(list)) + 1]]

\* the variants of the pattern that match at index p of string
MatchingAt(pattern, string, p) ==
  {a \in 1..Len(pattern) : AltMatchesAt(string, pattern[a], p)}

\* C27: at every position of the normalized text at most one variant of the keyword
\* matches, and the count of count_keyword_matches is the count under every order of
\* the variants in the pattern.
C27_OrderIrrelevant ==
  (op = "count_keyword_matches" /\ ~raised) =>
    \E pattern \in {create_flexible_regex(keyword_arg)} :
      \E string \in {normalize_text(text_arg)} :
        /\ \A p \in 1..Len(string) : Cardinality(MatchingAt(pattern, string, p)) <= 1
        /\ \A k \in 0..(Len(pattern) - 1) :
             FindallCount(Rotation(pattern, k), string, 1) = match_count

(***************************************************************************)
(* Order and multiplicity of the sources                                   *)
(***************************************************************************)
SourceOrders(n) == {f \in [1..n -> 1..n] : \A i, j \in 1..n : f[i] = f[j] => i = j}

SameCounts(r) == r.keyword_counts = keyword_counts /\ r.group_counts = group_counts

NotLess(r) == \A k \in DOMAIN keyword_counts : Get(r.keyword_counts, k, 0) >= keyword_counts[k]

\* C28: the reconciler returns the same keyword and group counts for every permutation
\* of the source list and for the list with a copy of one of its sources appended; a
\* further source never lowers the merged count of a keyword; with one surviving source
\* the counts are those of analyze on that source.
C28_OrderMultiplicity ==
  op = "reconcile" =>
    /\ \A f \in SourceOrders(Len(text_parts)) :
         \E r \in {analyze_and_merge_keyword_counts(
                     [i \in 1..Len(text_parts) |-> text_parts[f[i]]], keywords_map)} :
           SameCounts(r)
    /\ \A i \in 1..Len(text_parts) :
         \E r \in {analyze_and_merge_keyword_counts(
                     Append(text_parts, text_parts[i]), keywords_map)} :
           SameCounts(r)
    /\ \A source \in ConcSources :
         \E r \in {analyze_and_merge_keyword_counts(
                     Append(text_parts, source), keywords_map)} :
           NotLess(r)
    /\ Len(analyzed) = 1 => \E r \in {analyze(analyzed[1], keywords_map)} : SameCounts(r)

\* two surviving sources with different counts of a keyword, the smaller count last
C28_Witness ==
  /\ op = "reconcile"
  /\ Len(analyzed) = 2
  /\ \E k \in DOMAIN keyword_counts :
       /\ Get(analyze(analyzed[1], keywords_map).keyword_counts, k, 0) = keyword_counts[k]
       /\ Get(analyze(analyzed[2], keywords_map).keyword_counts, k, 0) < keyword_counts[k]
       /\ Get(analyze(analyzed[2], keywords_map).keyword_counts, k, 0) > 0

(***************************************************************************)
(* The singleton processor                                                 *)
(***************************************************************************)
\* C29: at most one VietnameseTextProcessor is constructed, every call of
\* get_text_processor returns that one, and the module-level instance, once set, is
\* never replaced.
C29_Singleton ==
  /\ [](/\ Len(instances) <= 1
        /\ \A c, d \in 1..Len(callers) :
             (callers[c].pc = "done" /\ callers[d].pc = "done")
               => callers[c].returned = callers[d].returned)
  /\ [][_processor_instance # 0 => _processor_instance' = _processor_instance]_vars

(***************************************************************************)
(* The order of the extraction methods                                     *)
(***************************************************************************)
Invoked(method) == \E i \in 1..Len(extraction.invoked) : extraction.invoked[i] = method

\* the sources the native methods delivered
NativeParts == SubSeq(extraction.text_parts, 1, extraction.native)

\* the sources the keywords were re-checked on after the OCR
OcrParts ==
  SubSeq(extraction.text_parts, 1, extraction.native + (IF extraction.ocr_added THEN 1 ELSE 0))

=============================================================================
